---- MODULE Spec2Model ----
(***************************************************************************)
(* Model of the uvr-headless-runner control logic:                         *)
(*   - the main() entry points of the MDX, Demucs and VR runners (the      *)
(*     run -> classify -> one CPU fallback loop), specification SpecRun;   *)
(*   - the MDX configuration cascade _load_model_config / _apply_config /  *)
(*     _auto_detect_from_model_file, specification SpecResolve;            *)
(*   - the VR configuration lookup and create_demucs_model_data, next to   *)
(*     the MDX cascade in specification SpecConfig;                        *)
(*   - get_model_hash of the MDX and VR runners, specification SpecHash;   *)
(*   - the VR get_model_hash called from several threads, SpecConc;        *)
(*   - the dispatch of the unified command line cli.py, SpecCli.           *)
(***************************************************************************)
EXTENDS Integers, Sequences, FiniteSets, TLC

VARIABLES
    \* ---- main() of one runner -------------------------------------------
    runner,                 \* which entry point runs: "mdx", "demucs", "vr"
    args,                   \* parsed command line: [cpu, gpu, directml]
    cuda_available,         \* torch.cuda.is_available() at import time
    modelOnDisk,            \* can the model identifier be resolved to a file
    setupState,             \* what run_*_headless meets before the Separator
    pc,                     \* position of main()
    use_gpu,                \* "None" | "True" | "False"
    current_use_gpu,        \* "None" | "True" | "False"
    gpu_fallback_attempted, \* BOOLEAN
    attempts,               \* history: one record per call of run_*_headless
    reclaim,                \* history: outcome of torch.cuda.empty_cache()
    exit_code,              \* return value of main(), -1 while running
    \* ---- _load_model_config of the MDX runner ---------------------------
    env,                    \* the metadata found on disk for one artifact
    rpc,                    \* position of _load_model_config
    model_hash,             \* "None" or the fingerprint
    hashed_after,           \* history: tiers consulted when get_model_hash ran, -1 if it did not
    model_data,             \* the ModelData attribute bag being filled
    source,                 \* history: tier that returned the configuration
    consulted,              \* history: tiers looked up, in order
    \* ---- the VR configuration lookup ------------------------------------
    vr_env,                 \* model_data.json, the files found, the user's parameters
    vpc,                    \* position of run_vr_headless
    vr_model_data,          \* the VR ModelData attribute bag
    \* ---- create_demucs_model_data ---------------------------------------
    demucs_stems,           \* the --stem argument
    dpc,                    \* position of create_demucs_model_data
    demucs_model_data,      \* primary_stem / secondary_stem of the Demucs ModelData
    \* ---- get_model_hash -------------------------------------------------
    files,                  \* what each model path is on disk
    model_hash_table,       \* the VR runner's global cache: path -> fingerprint
    last_call,              \* history: the latest call of get_model_hash
    first_hash,             \* history: first result per runner and path
    digested,               \* history: per path, the content last digested
    edits,                  \* history: number of changes made to the files
    \* ---- concurrent callers of the VR get_model_hash --------------------
    key_order,              \* the keys of model_hash_table in insertion order
    callers,                \* per thread: position and locals of get_model_hash
    \* ---- the unified command line, cli.main() ---------------------------
    sys_argv,               \* sys.argv as cli.main() finds it
    cli_pc,                 \* position of cli.main()
    cli_pending,            \* calls of _run_runner still to be made
    cli_ret,                \* what main() returns after them, -1: the runner's value
    cli_ran,                \* history: runner modules imported and run
    cli_exit                \* return value of cli.main(), -1 while running

runVars == <<runner, args, cuda_available, modelOnDisk, setupState, pc, use_gpu,
             current_use_gpu, gpu_fallback_attempted, attempts, reclaim, exit_code>>
resVars == <<env, rpc, model_hash, hashed_after, model_data, source, consulted>>
vrVars == <<vr_env, vpc, vr_model_data>>
dmVars == <<demucs_stems, dpc, demucs_model_data>>
hashVars == <<files, model_hash_table, last_call, first_hash, digested, edits>>
concVars == <<key_order, callers>>
cliVars == <<sys_argv, cli_pc, cli_pending, cli_ret, cli_ran, cli_exit>>
vars == <<runVars, resVars, vrVars, dmVars, hashVars, concVars, cliVars>>

\* Upper bound on calls of run_*_headless explored by the model.
MaxAttempts == 4

Runners == {"mdx", "demucs", "vr"}
TriState == {"None", "True", "False"}

(***************************************************************************)
(* error_handler.classify_error                                            *)
(***************************************************************************)
\* Exceptions the runners can see: a Python type and the keyword class of
\* the message text.
Errors ==
    { [type |-> "RuntimeError",      msg |-> "cuda out of memory"],
      [type |-> "RuntimeError",      msg |-> "cuda error"],
      [type |-> "RuntimeError",      msg |-> "directml"],
      [type |-> "FileNotFoundError", msg |-> "no such file"],
      [type |-> "PermissionError",   msg |-> "permission denied"],
      [type |-> "RuntimeError",      msg |-> "invalid model"],
      [type |-> "Exception",         msg |-> "unsupported format"],
      [type |-> "ConnectionError",   msg |-> "timed out"],
      [type |-> "Exception",         msg |-> "ssl"],
      [type |-> "ValueError",        msg |-> "random"] }

\* Exceptions run_*_headless raises before it reaches the Separator
\* (missing audio file, unreadable model database, invalid stem).
SetupErrors ==
    { [type |-> "FileNotFoundError", msg |-> "no such file"],
      [type |-> "PermissionError",   msg |-> "permission denied"],
      [type |-> "ValueError",        msg |-> "random"] }

\* Variant that also lets network failures be retried.
classify_error_network_recoverable(e) ==
    IF e.msg \in {"cuda out of memory", "cuda error", "directml"}
    THEN [category |-> "GPU", recoverable |-> TRUE]
    ELSE IF e.type \in {"FileNotFoundError", "PermissionError"}
         THEN [category |-> "FILE_SYSTEM", recoverable |-> FALSE]
    ELSE IF e.msg = "invalid model" THEN [category |-> "MODEL", recoverable |-> FALSE]
    ELSE IF e.msg = "unsupported format" THEN [category |-> "AUDIO", recoverable |-> FALSE]
    ELSE IF e.type = "ConnectionError" \/ e.msg \in {"timed out", "ssl"}
         THEN [category |-> "NETWORK", recoverable |-> TRUE]
    ELSE [category |-> "UNKNOWN", recoverable |-> FALSE]

classify_error(e) ==
    IF e.msg = "cuda out of memory" THEN [category |-> "GPU", recoverable |-> TRUE]
    ELSE IF e.msg \in {"cuda error", "directml"} THEN [category |-> "GPU", recoverable |-> TRUE]
    ELSE IF e.type \in {"FileNotFoundError", "PermissionError"}
         THEN [category |-> "FILE_SYSTEM", recoverable |-> FALSE]
    ELSE IF e.msg = "invalid model" THEN [category |-> "MODEL", recoverable |-> FALSE]
    ELSE IF e.msg = "unsupported format" THEN [category |-> "AUDIO", recoverable |-> FALSE]
    ELSE IF e.type = "ConnectionError" \/ e.msg \in {"timed out", "ssl"}
         THEN [category |-> "NETWORK", recoverable |-> FALSE]
    ELSE [category |-> "UNKNOWN", recoverable |-> FALSE]

(***************************************************************************)
(* main(): device selection                                                *)
(***************************************************************************)
\* "GPU settings" block of main(): --cpu wins over --gpu; without either flag
\* MDX and VR keep None, Demucs takes cuda_available.
SelectUseGpu(r, a, cuda) ==
    IF a.cpu THEN "False"
    ELSE IF a.gpu THEN "True"
    ELSE IF r = "demucs" THEN (IF cuda THEN "True" ELSE "False")
    ELSE "None"

\* use_gpu=use_gpu if use_gpu is not None else cuda_available
EffectiveGpu(cur, cuda) == IF cur = "None" THEN cuda ELSE cur = "True"

\* Variant that passes --directml on whatever happened before.
EffectiveDirectmlAsRequested(r, a, attempted) == a.directml

\* is_use_directml=args.directml if not gpu_fallback_attempted else False
\* (the MDX main passes args.directml unchanged)
EffectiveDirectml(r, a, attempted) ==
    IF r = "mdx" THEN a.directml
    ELSE IF ~attempted THEN a.directml ELSE FALSE

(***************************************************************************)
(* main(): the except branch                                               *)
(***************************************************************************)
\* Variants of the fallback condition with one or two conjuncts left out.
CanFallBackNoForce(info, attempted, cur) ==
    /\ info.category = "GPU"
    /\ info.recoverable
    /\ ~attempted

CanFallBackAnyError(info, attempted, cur) ==
    /\ ~attempted
    /\ cur # "False"

CanFallBackAlways(info, attempted, cur) ==
    /\ info.category = "GPU"
    /\ info.recoverable

\* The condition of the fallback branch in the VR and Demucs main().
CanFallBack(info, attempted, cur) ==
    /\ info.category = "GPU"
    /\ info.recoverable
    /\ ~attempted
    /\ cur # "False"

\* Variant in which an exception of the reclamation ends main().
AfterReclaimPropagating(r) == IF r = "raised" THEN "done" ELSE "loop"

\* try: torch.cuda.empty_cache()  except: pass ; continue
ReclaimOutcomes == {"emptied", "no_cuda", "raised"}
AfterReclaim(r) == "loop"

\* Which main() wraps the call in the `while True` fallback loop.
HasFallbackLoop(r) == r \in {"demucs", "vr"}

\* History: the exception an attempt ended with, if any.
NoError == [type |-> "-", msg |-> "-"]

NoInfo == [category |-> "-", recoverable |-> FALSE]

\* The attempt history att with its last attempt closed.
CloseAttempt(att, outcome, info) ==
    [att EXCEPT ![Len(att)] =
        [@ EXCEPT !.outcome = outcome, !.category = info.category,
                  !.recoverable = info.recoverable]]

\* except Exception as e: ... of main(), for the exception e and the outcome
\* r of the memory reclamation; att is the history with the failing attempt.
HandleException(att, e, r) ==
    LET info == classify_error(e) IN
    /\ attempts' = [CloseAttempt(att, "raised", info) EXCEPT ![Len(att)].error = e]
    /\ IF HasFallbackLoop(runner) /\ CanFallBack(info, gpu_fallback_attempted, current_use_gpu)
       THEN /\ gpu_fallback_attempted' = TRUE
            /\ current_use_gpu' = "False"
            /\ reclaim' = r
            /\ pc' = AfterReclaim(r)
            /\ exit_code' = IF AfterReclaim(r) = "done" THEN 1 ELSE exit_code
       ELSE /\ pc' = "done"
            /\ exit_code' = 1
            /\ UNCHANGED <<gpu_fallback_attempted, current_use_gpu, reclaim>>

(***************************************************************************)
(* MDX configuration cascade: data                                         *)
(***************************************************************************)
VOCAL_STEM == "Vocals"
INST_STEM  == "Instrumental"
DRUM_STEM  == "Drums"
BASS_STEM  == "Bass"
OTHER_STEM == "Other"

\* dict.get(k, default) and `k in dict` on a parsed document (a record).
Has(d, k) == k \in DOMAIN d
Get(d, k, default) == IF k \in DOMAIN d THEN d[k] ELSE default

\* gui_data.constants.secondary_stem: the complement of a stem.
secondary_stem(stem) ==
    CASE stem = VOCAL_STEM -> INST_STEM
      [] stem = INST_STEM  -> VOCAL_STEM
      [] stem = "None"     -> ""
      [] OTHER             -> "No " \o stem

\* Fingerprints get_model_hash can return for the artifacts of the model.
Hashes == {"h1", "h2"}

\* A parsed JSON value that is not an object (a list): `in` works on it,
\* .get does not.
NotADict == [json_list |-> TRUE]
IsDict(c) == ~Has(c, "json_list")

\* The preset documents under model_data/mdx_c_configs, by file name:
\* what find_mdx_c_config_path and yaml.load make of each name.
PresetNames == {"missing.yaml", "broken.yaml", "list.yaml", "badtraining.yaml",
                "target.yaml", "multi.yaml", "plain.yaml"}

YamlTarget == [training |-> [target_instrument |-> BASS_STEM]]
YamlMulti  == [training |-> [instruments |-> <<VOCAL_STEM, DRUM_STEM, BASS_STEM, OTHER_STEM>>],
               model |-> [num_bands |-> 60]]
YamlPlain  == [audio |-> [chunk_size |-> 1]]

PresetFile(name) ==
    CASE name = "missing.yaml"     -> [state |-> "absent"]
      [] name = "broken.yaml"      -> [state |-> "unparseable"]
      [] name = "list.yaml"        -> [state |-> "not_mapping"]
      [] name = "badtraining.yaml" -> [state |-> "bad_training"]
      [] name = "target.yaml"      -> [state |-> "ok", doc |-> YamlTarget]
      [] name = "multi.yaml"       -> [state |-> "ok", doc |-> YamlMulti]
      [] OTHER                     -> [state |-> "ok", doc |-> YamlPlain]

\* Configuration documents (model_data.json entries, {hash}.json, --json).
FlatFull    == [mdx_dim_f_set |-> 2048, mdx_dim_t_set |-> 9, mdx_n_fft_scale_set |-> 7680,
                compensate |-> 1043, primary_stem |-> INST_STEM]
FlatPartial == [primary_stem |-> DRUM_STEM, is_karaoke |-> TRUE]
JsonDocs == {FlatFull, FlatPartial, NotADict} \cup {[config_yaml |-> n] : n \in PresetNames}

\* What a JSON file can be when the resolver looks at it.
JsonFiles == {[state |-> "absent"], [state |-> "unparseable"]}
             \cup {[state |-> "ok", doc |-> d] : d \in JsonDocs}

\* What the --json argument can be: nothing, a JSON file, a YAML file.
YamlFiles == {[state |-> "unparseable"], [state |-> "not_mapping"], [state |-> "bad_training"]}
             \cup {[state |-> "ok", doc |-> d] : d \in {YamlTarget, YamlMulti, YamlPlain}}
ExplicitFiles ==
    {[fmt |-> "json", file |-> f] : f \in JsonFiles}
    \cup {[fmt |-> "yaml", file |-> f] : f \in YamlFiles}

\* model_data.json as loaded by load_model_data_json: a table from
\* fingerprints to documents ({} when no file loads).
RegEntries == {FlatFull, NotADict, [config_yaml |-> "missing.yaml"],
               [config_yaml |-> "broken.yaml"], [config_yaml |-> "multi.yaml"]}
RegistryTables ==
    {[state |-> "empty"]}
    \cup {[state |-> "table", keys |-> {h}, entry |-> e] : h \in Hashes, e \in RegEntries}

\* Largest raw dim_t of the small checkpoints explored one by one.
MaxDimT == 9

\* What torch.load / onnx.load find in the artifact.
CkptFiles ==
    {[state |-> "load_fails"], [state |-> "no_hyper"]}
    \cup {[state |-> "ok", params |-> q] :
            q \in { [dim_f |-> 2048, dim_t |-> 512, n_fft |-> 7680, target_name |-> "vocals"],
                    [dim_f |-> 3072, dim_t |-> 256, n_fft |-> 6144, target_name |-> "Other"],
                    [dim_t |-> 300, target_name |-> "bass_drums"],
                    [dim_f |-> 2048, dim_t |-> 0] }}
    \cup {[state |-> "ok", params |-> [dim_f |-> 2560, dim_t |-> d, n_fft |-> 5120]] :
            d \in 1..MaxDimT}
    \cup {[state |-> "ok", params |-> [target_name |-> t]] :
            t \in {"Vocals_Other", "Instrumental_Bass", "drums_other", "Bass_Other", "guitar"}}
OnnxFiles ==
    {[state |-> "load_fails"]}
    \cup {[state |-> "ok", shape |-> sh] : sh \in {<<1, 4, 2048, 256>>, <<1, 4, 3072, 0>>}}

Unread == [state |-> "unread"]

\* The overrides passed to create_model_data as keyword arguments.
KwargsSets ==
    { [verbose |-> FALSE],
      [verbose |-> FALSE, primary_stem |-> BASS_STEM],
      [verbose |-> FALSE, compensate |-> 1000, primary_stem |-> DRUM_STEM,
       mdx_dim_f_set |-> 2560, mdx_dim_t_set |-> 7, mdx_n_fft_scale_set |-> 5120] }

Extensions == {"ckpt", "onnx", "other"}

\* create_model_data up to the call of _load_model_config.
NewModelData(ext, kw) ==
    [is_mdx_ckpt |-> (ext = "ckpt"),
     is_mdx_c |-> FALSE,
     is_roformer |-> FALSE,
     is_target_instrument |-> FALSE,
     mdx_c_configs |-> "None",
     mdx_stem_count |-> 1,
     is_karaoke |-> FALSE,
     compensate |-> Get(kw, "compensate", 1035),
     mdx_dim_f_set |-> Get(kw, "mdx_dim_f_set", 3072),
     mdx_dim_t_set |-> Get(kw, "mdx_dim_t_set", 8),
     mdx_n_fft_scale_set |-> Get(kw, "mdx_n_fft_scale_set", 6144),
     primary_stem |-> "None",
     secondary_stem |-> "None"]

(***************************************************************************)
(* MDX configuration cascade: _apply_config, _auto_detect_from_model_file  *)
(***************************************************************************)
EmptyDict == [no_key |-> 0]

\* The stems part shared by the YAML branches: target_instrument, else the
\* first of instruments (default ['Vocals', 'Instrumental']), else Vocals.
ApplyTraining(md, doc, setTargetFlag) ==
    LET training == Get(doc, "training", EmptyDict)
        target == Get(training, "target_instrument", "")
        instruments == Get(training, "instruments", <<VOCAL_STEM, INST_STEM>>)
        primary == IF target # "" THEN target
                   ELSE IF Len(instruments) > 0 THEN instruments[1] ELSE VOCAL_STEM
    IN [md EXCEPT !.primary_stem = primary,
                  !.secondary_stem = secondary_stem(primary),
                  !.mdx_stem_count = IF target # "" THEN @ ELSE Len(instruments),
                  !.is_target_instrument = IF target # "" /\ setTargetFlag THEN TRUE ELSE @]

IsRoformerYaml(doc) ==
    LET model == Get(doc, "model", EmptyDict) IN
    Has(model, "num_bands") \/ Has(model, "freqs_per_bands")
       \/ Has(model, "band_SR") \/ Has(model, "sources")

\* _apply_config(model_data, config, kwargs): the ModelData it leaves behind
\* and whether it raised.
ApplyConfig(md, config, kw) ==
    IF ~IsDict(config) THEN [md |-> md, raised |-> TRUE]
    ELSE IF Has(config, "config_yaml") THEN
        LET md1 == [md EXCEPT !.is_mdx_c = TRUE]
            y == PresetFile(config.config_yaml)
        IN CASE y.state = "absent" ->
                  [md |-> [md1 EXCEPT !.is_mdx_c = FALSE], raised |-> FALSE]
             [] y.state \in {"unparseable", "not_mapping"} ->
                  [md |-> md1, raised |-> TRUE]
             [] y.state = "bad_training" ->
                  [md |-> [md1 EXCEPT !.mdx_c_configs = config.config_yaml], raised |-> TRUE]
             [] OTHER ->
                  [md |-> [ApplyTraining([md1 EXCEPT !.mdx_c_configs = config.config_yaml],
                                         y.doc, TRUE)
                             EXCEPT !.is_roformer = Get(config, "is_roformer", FALSE)
                                                     \/ IsRoformerYaml(y.doc)],
                   raised |-> FALSE]
    ELSE
        LET primary == Get(config, "primary_stem", VOCAL_STEM) IN
        [md |-> [md EXCEPT !.mdx_dim_f_set = Get(config, "mdx_dim_f_set", 3072),
                           !.mdx_dim_t_set = Get(config, "mdx_dim_t_set", 8),
                           !.mdx_n_fft_scale_set = Get(config, "mdx_n_fft_scale_set", 6144),
                           !.compensate = Get(config, "compensate", Get(kw, "compensate", 1035)),
                           !.primary_stem = primary,
                           !.secondary_stem = secondary_stem(primary),
                           !.is_karaoke = Get(config, "is_karaoke", FALSE)],
         raised |-> FALSE]

\* Step 1 of _load_model_config for the --json file f: the ModelData it
\* leaves behind and whether the step returned ("hit"), was skipped ("miss")
\* or ended in the except clause ("fail").
ExplicitResult(md, f, kw) ==
    IF f.file.state = "absent" THEN [md |-> md, outcome |-> "miss"]
    ELSE IF f.file.state = "unparseable" THEN [md |-> md, outcome |-> "fail"]
    ELSE IF f.fmt = "yaml" THEN
        LET md1 == [md EXCEPT !.is_mdx_c = TRUE, !.is_mdx_ckpt = FALSE] IN
        CASE f.file.state = "not_mapping" -> [md |-> md1, outcome |-> "fail"]
          [] f.file.state = "bad_training" ->
                [md |-> [md1 EXCEPT !.mdx_c_configs = "explicit"], outcome |-> "fail"]
          [] OTHER ->
                [md |-> ApplyTraining([md1 EXCEPT !.mdx_c_configs = "explicit"], f.file.doc, FALSE),
                 outcome |-> "hit"]
    ELSE
        LET res == ApplyConfig(md, f.file.doc, kw) IN
        [md |-> res.md, outcome |-> IF res.raised THEN "fail" ELSE "hit"]

RECURSIVE Log2Ceil(_)
\* Variant rounding the logarithm up.
Log2Ceil(n) == IF n < 2 THEN 0 ELSE 1 + Log2Ceil((n + 1) \div 2)

RECURSIVE Log2Floor(_)
\* int(math.log(n, 2)) for n >= 1
Log2Floor(n) == IF n < 2 THEN 0 ELSE 1 + Log2Floor(n \div 2)

\* The keywords of stem_mapping that occur in target_name.lower().
KeywordsIn(name) ==
    CASE name = "vocals"            -> {"vocals"}
      [] name = "Other"             -> {"other"}
      [] name = "bass_drums"        -> {"bass", "drums"}
      [] name = "Vocals_Other"      -> {"vocals", "other"}
      [] name = "Instrumental_Bass" -> {"instrumental", "bass"}
      [] name = "drums_other"       -> {"drums", "other"}
      [] name = "Bass_Other"        -> {"bass", "other"}
      [] OTHER                      -> {}

\* Variant with the keywords tried in alphabetical order.
StemKeywordOrderSorted == <<"bass", "drums", "instrumental", "other", "vocals">>

\* The keys of stem_mapping in insertion order.
StemKeywordOrder == <<"vocals", "instrumental", "drums", "bass", "other">>
StemOfKeyword(k) ==
    CASE k = "vocals" -> VOCAL_STEM
      [] k = "instrumental" -> INST_STEM
      [] k = "drums" -> DRUM_STEM
      [] k = "bass" -> BASS_STEM
      [] OTHER -> INST_STEM

\* for key, stem in stem_mapping.items(): if key in target_name: ... break
StemFromTargetName(name) ==
    LET hits == {i \in 1..Len(StemKeywordOrder) : StemKeywordOrder[i] \in KeywordsIn(name)} IN
    IF hits = {} THEN VOCAL_STEM
    ELSE StemOfKeyword(StemKeywordOrder[CHOOSE i \in hits : \A j \in hits : i <= j])

\* _auto_detect_from_model_file: the ModelData it leaves behind and its
\* return value.
AutoDetect(md, ext, art, kw) ==
    IF ext = "ckpt" THEN
        IF art.state # "ok" THEN [md |-> md, detected |-> FALSE]
        ELSE LET params == art.params
                 dim_t_raw == Get(params, "dim_t", 256)
                 primary == Get(kw, "primary_stem",
                                StemFromTargetName(Get(params, "target_name", "")))
             IN [md |-> [md EXCEPT !.mdx_dim_f_set = Get(params, "dim_f", 3072),
                                   !.mdx_dim_t_set = IF dim_t_raw > 0 THEN Log2Floor(dim_t_raw) ELSE 8,
                                   !.mdx_n_fft_scale_set = Get(params, "n_fft", 6144),
                                   !.compensate = Get(kw, "compensate", 1035),
                                   !.primary_stem = primary,
                                   !.secondary_stem = secondary_stem(primary)],
                 detected |-> TRUE]
    ELSE IF ext = "onnx" THEN
        IF art.state # "ok" \/ art.shape[4] <= 0 THEN [md |-> md, detected |-> FALSE]
        ELSE LET primary == Get(kw, "primary_stem", VOCAL_STEM) IN
             [md |-> [md EXCEPT !.mdx_dim_f_set = art.shape[3],
                                !.mdx_dim_t_set = Log2Floor(art.shape[4]),
                                !.mdx_n_fft_scale_set = Get(kw, "mdx_n_fft_scale_set", 6144),
                                !.compensate = Get(kw, "compensate", 1035),
                                !.primary_stem = primary,
                                !.secondary_stem = secondary_stem(primary)],
              detected |-> TRUE]
    ELSE [md |-> md, detected |-> FALSE]

\* Step 4 of _load_model_config: CLI arguments and the GUI defaults.
ApplyDefaults(md, kw) ==
    LET primary == Get(kw, "primary_stem", VOCAL_STEM) IN
    [md EXCEPT !.mdx_dim_f_set = Get(kw, "mdx_dim_f_set", 3072),
               !.mdx_dim_t_set = Get(kw, "mdx_dim_t_set", 8),
               !.mdx_n_fft_scale_set = Get(kw, "mdx_n_fft_scale_set", 6144),
               !.compensate = Get(kw, "compensate", 1035),
               !.primary_stem = primary,
               !.secondary_stem = secondary_stem(primary)]

(***************************************************************************)
(* MDX configuration cascade: _load_model_config                           *)
(***************************************************************************)
\* Variant order with the registry looked up before the per-hash file.
TierOrderRegistryFirst == <<"explicit", "registry", "hash_file", "introspect", "defaults">>

\* The order in which _load_model_config tries its sources.
TierOrder == <<"explicit", "hash_file", "registry", "introspect", "defaults">>

TierIndex(t) == CHOOSE i \in 1..Len(TierOrder) : TierOrder[i] = t
NextTier(t) == TierOrder[TierIndex(t) + 1]

ResolveInit ==
    /\ \E ext \in Extensions, kw \in KwargsSets :
          /\ env = [ext |-> ext, kwargs |-> kw, explicit |-> Unread,
                    hashfile |-> <<Unread, Unread>>, registry |-> Unread,
                    artifact |-> Unread]
          /\ model_data = NewModelData(ext, kw)
    /\ rpc = "start"
    /\ model_hash = "None"
    /\ hashed_after = -1
    /\ source = "-"
    /\ consulted = <<>>

\* model_hash = get_model_hash(model_path): a fingerprint, or None when the
\* artifact cannot be read.
ComputeHash ==
    /\ rpc = "start"
    /\ model_hash' \in Hashes \cup {"None"}
    /\ hashed_after' = Len(consulted)
    /\ rpc' = TierOrder[1]
    /\ UNCHANGED <<env, model_data, source, consulted>>

\* Step 1: the user's configuration file (--json).
TierExplicit ==
    /\ rpc = "explicit"
    /\ \E f \in ExplicitFiles :
          LET res == ExplicitResult(model_data, f, env.kwargs) IN
          /\ env' = [env EXCEPT !.explicit = [fmt |-> f.fmt, state |-> f.file.state,
                                              doc |-> Get(f.file, "doc", EmptyDict),
                                              outcome |-> res.outcome]]
          /\ model_data' = res.md
          /\ IF res.outcome = "hit"
             THEN rpc' = "done" /\ source' = "explicit"
             ELSE rpc' = NextTier("explicit") /\ UNCHANGED source
    /\ consulted' = Append(consulted, "explicit")
    /\ UNCHANGED <<model_hash, hashed_after>>

\* One iteration of `for hash_json_path in hash_json_paths`.
HashFileResult(md, f, kw) ==
    IF f.state # "ok" THEN [md |-> md, outcome |-> IF f.state = "absent" THEN "miss" ELSE "fail"]
    ELSE LET res == ApplyConfig(md, f.doc, kw) IN
         [md |-> res.md, outcome |-> IF res.raised THEN "fail" ELSE "hit"]

\* Step 2a: {hash}.json next to the model, then in the GUI's directory.
TierHashFile ==
    /\ rpc = "hash_file"
    /\ IF model_hash = "None"
       THEN /\ rpc' = NextTier("hash_file")
            /\ UNCHANGED <<env, model_data, source>>
       ELSE \E f1 \in JsonFiles :
              LET r1 == HashFileResult(model_data, f1, env.kwargs) IN
              IF r1.outcome = "hit"
              THEN /\ env' = [env EXCEPT !.hashfile =
                                <<[state |-> f1.state, doc |-> Get(f1, "doc", EmptyDict),
                                   outcome |-> "hit"], Unread>>]
                   /\ model_data' = r1.md
                   /\ rpc' = "done"
                   /\ source' = "hash_file"
              ELSE \E f2 \in JsonFiles :
                     LET r2 == HashFileResult(r1.md, f2, env.kwargs) IN
                     /\ env' = [env EXCEPT !.hashfile =
                                  <<[state |-> f1.state, doc |-> Get(f1, "doc", EmptyDict),
                                     outcome |-> r1.outcome],
                                    [state |-> f2.state, doc |-> Get(f2, "doc", EmptyDict),
                                     outcome |-> r2.outcome]>>]
                     /\ model_data' = r2.md
                     /\ IF r2.outcome = "hit"
                        THEN rpc' = "done" /\ source' = "hash_file"
                        ELSE rpc' = NextTier("hash_file") /\ UNCHANGED source
    /\ consulted' = Append(consulted, "hash_file")
    /\ UNCHANGED <<model_hash, hashed_after>>

\* _apply_config(...) as called at step 2b, outside any try block: an
\* exception leaves _load_model_config.
RegistryApply(md, config, kw) ==
    LET res == ApplyConfig(md, config, kw) IN
    [md |-> res.md, outcome |-> IF res.raised THEN "raise" ELSE "hit"]

\* Step 2b: the fingerprint as a key of model_data.json.
TierRegistry ==
    /\ rpc = "registry"
    /\ \E db \in RegistryTables :
          IF model_hash # "None" /\ db.state = "table" /\ model_hash \in db.keys
          THEN LET res == RegistryApply(model_data, db.entry, env.kwargs) IN
               /\ env' = [env EXCEPT !.registry = [state |-> "table", keys |-> db.keys,
                                                   entry |-> db.entry,
                                                   outcome |-> res.outcome]]
               /\ model_data' = res.md
               /\ CASE res.outcome = "hit" -> rpc' = "done" /\ source' = "registry"
                    [] res.outcome = "raise" -> rpc' = "raised" /\ UNCHANGED source
                    [] OTHER -> rpc' = NextTier("registry") /\ UNCHANGED source
          ELSE /\ env' = [env EXCEPT !.registry =
                            [state |-> db.state,
                             keys |-> IF db.state = "table" THEN db.keys ELSE {},
                             outcome |-> "miss"]]
               /\ rpc' = NextTier("registry")
               /\ UNCHANGED <<model_data, source>>
    /\ consulted' = Append(consulted, "registry")
    /\ UNCHANGED <<model_hash, hashed_after>>

ArtifactFiles(ext) ==
    IF ext = "ckpt" THEN CkptFiles
    ELSE IF ext = "onnx" THEN OnnxFiles
    ELSE {[state |-> "not_read"]}

\* Step 3: the parameters stored in the artifact itself.
TierIntrospect ==
    /\ rpc = "introspect"
    /\ \E art \in ArtifactFiles(env.ext) :
          LET res == AutoDetect(model_data, env.ext, art, env.kwargs) IN
          /\ env' = [env EXCEPT !.artifact =
                        [state |-> art.state,
                         file |-> art,
                         outcome |-> IF res.detected THEN "hit" ELSE "miss"]]
          /\ model_data' = res.md
          /\ IF res.detected
             THEN rpc' = "done" /\ source' = "introspected"
             ELSE rpc' = NextTier("introspect") /\ UNCHANGED source
    /\ consulted' = Append(consulted, "introspect")
    /\ UNCHANGED <<model_hash, hashed_after>>

\* Step 4: CLI arguments and defaults.
TierDefaults ==
    /\ rpc = "defaults"
    /\ model_data' = ApplyDefaults(model_data, env.kwargs)
    /\ rpc' = "done"
    /\ source' = "default"
    /\ consulted' = Append(consulted, "defaults")
    /\ UNCHANGED <<env, model_hash, hashed_after>>

\* run_mdx_headless after create_model_data returned: the Separator class
\* chosen by is_mdx_c is constructed and run.
MdxBuildSeparator ==
    /\ rpc = "done"
    /\ rpc' = IF model_data.is_mdx_c THEN "SeperateMDXC" ELSE "SeperateMDX"
    /\ UNCHANGED <<env, model_hash, hashed_after, model_data, source, consulted>>

(***************************************************************************)
(* VR configuration lookup: get_model_data, create_vr_model_data,          *)
(* create_vr_model_data_with_user_params, run_vr_headless                  *)
(***************************************************************************)
\* The fingerprint with a built-in configuration (values of
\* gui_data.constants, opaque here).
WOOD_INST_MODEL_HASH == "wood"
WOOD_INST_PARAMS == [vr_model_param |-> "4band_v3", primary_stem |-> "No Woodwinds"]

VrHashes == Hashes \cup {WOOD_INST_MODEL_HASH}

\* What os.path.isfile / open make of a model path, and get_model_hash of it.
VrModelFiles == {[state |-> "absent"], [state |-> "unreadable"]}
                \cup {[state |-> "ok", hash |-> h] : h \in VrHashes}
HashOfFile(f) == IF f.state = "ok" THEN f.hash ELSE "None"

\* Entries of the VR model_data.json and documents of {hash}.json.
VrEntryVocals   == [vr_model_param |-> "4band_v3", primary_stem |-> VOCAL_STEM]
VrEntry51       == [vr_model_param |-> "4band_v3", primary_stem |-> INST_STEM,
                    nout |-> 48, nout_lstm |-> 128]
VrEntryNoParam  == [primary_stem |-> VOCAL_STEM]
VrEntryBadParam == [vr_model_param |-> "nofile", primary_stem |-> BASS_STEM]
NoData == [none |-> TRUE]

\* os.path.isfile(VR_PARAM_DIR/{name}.json)
ParamFileExists(name) == name = "4band_v3"

VrJsonFiles == {[state |-> "absent"], [state |-> "unparseable"]}
               \cup {[state |-> "ok", doc |-> d] :
                       d \in {VrEntryVocals, VrEntryBadParam, EmptyDict}}

\* vr_hash_MAPPER: the items of model_data.json in file order.
VrTables ==
    { <<>>,
      <<[key |-> "h1", settings |-> VrEntryVocals]>>,
      <<[key |-> "h1h2", settings |-> VrEntry51]>>,
      <<[key |-> "h1h2", settings |-> VrEntry51], [key |-> "h1", settings |-> VrEntryVocals]>>,
      <<[key |-> "h2", settings |-> EmptyDict]>>,
      <<[key |-> "h1", settings |-> VrEntryNoParam]>>,
      <<[key |-> "h2", settings |-> VrEntryBadParam]>> }

\* `model_hash in hash_key` on strings: substring containment.
HashInKey(h, key) == key = h \/ (key = "h1h2" /\ h \in {"h1", "h2"})

RECURSIVE FirstMatch(_, _, _)
\* for hash_key, settings in hash_mapper.items(): if model_hash in hash_key
FirstMatch(mapper, h, i) ==
    IF i > Len(mapper) THEN 0
    ELSE IF HashInKey(h, mapper[i].key) THEN i
    ELSE FirstMatch(mapper, h, i + 1)

\* get_model_data(model_hash, model_hash_dir, hash_mapper), f being the
\* state of {model_hash}.json.
get_model_data(h, f, mapper) ==
    IF f.state = "ok" THEN [outcome |-> "file", data |-> f.doc, index |-> 0]
    ELSE IF f.state = "unparseable" THEN [outcome |-> "raise", data |-> NoData, index |-> 0]
    ELSE LET i == FirstMatch(mapper, h, 1) IN
         IF i = 0 THEN [outcome |-> "none", data |-> NoData, index |-> 0]
         ELSE [outcome |-> "mapper", data |-> mapper[i].settings, index |-> i]

\* `if model_data.model_data:` is false for None and for {}.
Falsy(d) == d = NoData \/ d = EmptyDict

\* The ModelData attributes create_vr_model_data sets before it looks at
\* the model file; found_by notes where the latest lookup found the
\* configuration ("file", "mapper", "const", "user", "-" for nowhere).
NewVrModelData ==
    [model_status |-> TRUE, model_hash |-> "None", model_data |-> NoData,
     primary_stem |-> "None", secondary_stem |-> "None",
     vr_model_param |-> "None", is_vr_51_model |-> FALSE, found_by |-> "-"]

\* The block `if model_data.model_hash: ... else: model_status = False`
\* shared by create_vr_model_data (setsTrue = FALSE) and
\* create_vr_model_data_with_user_params (setsTrue = TRUE).
VrLoadByHash(md, h, f, mapper, setsTrue) ==
    LET md0 == [md EXCEPT !.model_hash = h, !.found_by = "-"] IN
    IF h = "None" THEN [md |-> [md0 EXCEPT !.model_status = FALSE], raised |-> FALSE]
    ELSE LET res == IF h = WOOD_INST_MODEL_HASH
                    THEN [outcome |-> "const", data |-> WOOD_INST_PARAMS, index |-> 0]
                    ELSE get_model_data(h, f, mapper)
             md1 == [md0 EXCEPT !.model_data = res.data]
         IN IF res.outcome = "raise" THEN [md |-> md0, raised |-> TRUE]
            ELSE IF Falsy(res.data)
               THEN [md |-> [md1 EXCEPT !.model_status = FALSE], raised |-> FALSE]
            ELSE IF ~Has(res.data, "vr_model_param") \/ ~Has(res.data, "primary_stem")
               THEN [md |-> md1, raised |-> TRUE]
            ELSE LET md2 == [md1 EXCEPT !.primary_stem = res.data.primary_stem,
                                        !.secondary_stem = secondary_stem(res.data.primary_stem)]
                 IN IF ~ParamFileExists(res.data.vr_model_param)
                    THEN [md |-> md2, raised |-> TRUE]
                    ELSE [md |-> [md2 EXCEPT
                                    !.vr_model_param = res.data.vr_model_param,
                                    !.is_vr_51_model = Has(res.data, "nout") /\ Has(res.data, "nout_lstm"),
                                    !.found_by = res.outcome,
                                    !.model_status = IF setsTrue THEN TRUE ELSE @],
                          raised |-> FALSE]

\* The user's --param / --primary-stem; run_vr_headless passes None when
\* neither is given.
NoUserParams == [vr_model_param |-> "None", primary_stem |-> "None"]
VrUserParams ==
    { NoUserParams,
      [vr_model_param |-> "4band_v3", primary_stem |-> DRUM_STEM],
      [vr_model_param |-> "nofile",   primary_stem |-> VOCAL_STEM],
      [vr_model_param |-> "None",     primary_stem |-> BASS_STEM],
      [vr_model_param |-> "4band_v3", primary_stem |-> "None"] }

\* Variant that takes the user's primary stem and keeps the secondary stem.
ApplyUserParamsKeepSecondary(md, up) ==
    IF ~md.model_status /\ up.vr_model_param # "None" /\ up.primary_stem # "None"
       /\ ParamFileExists(up.vr_model_param)
    THEN [md EXCEPT !.vr_model_param = up.vr_model_param,
                    !.primary_stem = up.primary_stem,
                    !.found_by = "user",
                    !.model_status = TRUE]
    ELSE md

\* Variant that does not look for the parameter file.
ApplyUserParamsNoFileCheck(md, up) ==
    IF ~md.model_status /\ up.vr_model_param # "None" /\ up.primary_stem # "None"
    THEN [md EXCEPT !.model_data = [vr_model_param |-> up.vr_model_param,
                                    primary_stem |-> up.primary_stem],
                    !.vr_model_param = up.vr_model_param,
                    !.primary_stem = up.primary_stem,
                    !.secondary_stem = secondary_stem(up.primary_stem),
                    !.found_by = "user",
                    !.model_status = TRUE]
    ELSE md

\* `if not model_data.model_status and user_params:` ...
ApplyUserParams(md, up) ==
    IF /\ ~md.model_status
       /\ up # NoUserParams
       /\ up.vr_model_param # "None"
       /\ up.primary_stem # "None"
       /\ ParamFileExists(up.vr_model_param)
    THEN [md EXCEPT !.model_data = [vr_model_param |-> up.vr_model_param,
                                    primary_stem |-> up.primary_stem],
                    !.vr_model_param = up.vr_model_param,
                    !.primary_stem = up.primary_stem,
                    !.secondary_stem = secondary_stem(up.primary_stem),
                    !.found_by = "user",
                    !.model_status = TRUE]
    ELSE md

VrInit ==
    /\ \E t \in VrTables, c \in BOOLEAN, up \in VrUserParams :
          vr_env = [table |-> t, custom_path |-> c, user_params |-> up,
                    default_file |-> Unread, model_file |-> Unread,
                    hashfile |-> [h \in VrHashes |-> Unread]]
    /\ vpc = "create"
    /\ vr_model_data = NewVrModelData

VrIdle ==
    /\ vr_env = [table |-> <<>>, custom_path |-> FALSE, user_params |-> NoUserParams,
                 default_file |-> Unread, model_file |-> Unread,
                 hashfile |-> [h \in VrHashes |-> Unread]]
    /\ vpc = "idle"
    /\ vr_model_data = NewVrModelData

\* The states {h}.json can be found in: the one seen before, if any.
HashFileChoices(h) ==
    IF h \notin Hashes THEN {Unread}
    ELSE IF vr_env.hashfile[h] # Unread THEN {vr_env.hashfile[h]}
    ELSE VrJsonFiles

\* create_vr_model_data(model_name, ...): the lookup for
\* VR_MODELS_DIR/{model_name}.pth.
VrCreateModelData ==
    /\ vpc = "create"
    /\ \E df \in VrModelFiles : \E f \in HashFileChoices(HashOfFile(df)) :
          LET h == HashOfFile(df)
              res == VrLoadByHash(vr_model_data, h, f, vr_env.table, FALSE)
          IN /\ vr_env' = [vr_env EXCEPT
                             !.default_file = df,
                             !.model_file = IF vr_env.custom_path THEN @ ELSE df,
                             !.hashfile = IF h \in Hashes THEN [@ EXCEPT ![h] = f] ELSE @]
             /\ vr_model_data' = res.md
             /\ vpc' = IF res.raised THEN "raised" ELSE "path"

\* if model_path != model_data.model_path: the lookup for the given path.
VrUseModelPath ==
    /\ vpc = "path"
    /\ IF ~vr_env.custom_path
       THEN UNCHANGED <<vr_env, vr_model_data>> /\ vpc' = "user"
       ELSE \E mf \in VrModelFiles : \E f \in HashFileChoices(HashOfFile(mf)) :
              LET h == HashOfFile(mf)
                  res == VrLoadByHash(vr_model_data, h, f, vr_env.table, TRUE)
              IN /\ vr_env' = [vr_env EXCEPT
                                 !.model_file = mf,
                                 !.hashfile = IF h \in Hashes THEN [@ EXCEPT ![h] = f] ELSE @]
                 /\ vr_model_data' = res.md
                 /\ vpc' = IF res.raised THEN "raised" ELSE "user"

\* The user's parameters stand in for the configuration that was not found.
VrUserParamsStep ==
    /\ vpc = "user"
    /\ vr_model_data' = ApplyUserParams(vr_model_data, vr_env.user_params)
    /\ vpc' = "check"
    /\ UNCHANGED vr_env

\* Variant that builds the Separator without looking at model_status.
VrCheckStatusSkipped ==
    /\ vpc = "check"
    /\ vpc' = "SeperateVR"
    /\ UNCHANGED <<vr_env, vr_model_data>>

\* run_vr_headless: `if not model_data.model_status: ... return False`,
\* else SeperateVR(model_data, process_data).
VrCheckStatus ==
    /\ vpc = "check"
    /\ vpc' = IF vr_model_data.model_status THEN "SeperateVR" ELSE "returned_false"
    /\ UNCHANGED <<vr_env, vr_model_data>>

\* main() of the VR runner after run_vr_headless returned False:
\* `return 0 if success else 1`, from inside the loop.
VrMainReturnsOne ==
    /\ vpc = "returned_false"
    /\ vpc' = "exit_1"
    /\ UNCHANGED <<vr_env, vr_model_data>>

(***************************************************************************)
(* Demucs: create_demucs_model_data                                        *)
(***************************************************************************)
ALL_STEMS == "All Stems"
PRIMARY_STEM == "Primary Stem"
DemucsStemChoices == {ALL_STEMS, VOCAL_STEM, DRUM_STEM, BASS_STEM, OTHER_STEM}

\* primary_stem / secondary_stem as create_demucs_model_data sets them.
DemucsStems(stems) ==
    LET primary == IF stems = ALL_STEMS THEN PRIMARY_STEM ELSE stems IN
    [primary_stem |-> primary, secondary_stem |-> secondary_stem(primary)]

DemucsInit ==
    /\ demucs_stems \in DemucsStemChoices
    /\ dpc = "create"
    /\ demucs_model_data = [primary_stem |-> "None", secondary_stem |-> "None"]

DemucsIdle ==
    /\ demucs_stems = ALL_STEMS
    /\ dpc = "idle"
    /\ demucs_model_data = [primary_stem |-> "None", secondary_stem |-> "None"]

CreateDemucsModelData ==
    /\ dpc = "create"
    /\ demucs_model_data' = DemucsStems(demucs_stems)
    /\ dpc' = "done"
    /\ UNCHANGED demucs_stems

(***************************************************************************)
(* get_model_hash of the MDX runner and of the VR runner, model_hash_table *)
(***************************************************************************)
\* The trailing window, 10000 * 1024 bytes in the program, scaled down.
WindowBytes == 2
\* Files are up to WindowBytes + MaxExtraBytes long.
MaxExtraBytes == 2
\* Upper bound on the changes made to the files between calls.
MaxEdits == 1

Paths == {"a.pth", "b.pth"}
Bytes == {0, 1}
HashRunners == {"mdx", "vr"}

RECURSIVE SeqsUpTo(_)
\* All byte sequences of length at most n.
SeqsUpTo(n) ==
    IF n = 0 THEN {<<>>}
    ELSE LET shorter == SeqsUpTo(n - 1) IN
         shorter \cup {Append(s, b) : s \in {t \in shorter : Len(t) = n - 1}, b \in Bytes}

Contents == SeqsUpTo(WindowBytes + MaxExtraBytes)

\* What a path is on disk.
FileStates == {[state |-> "absent"], [state |-> "unreadable"]}
              \cup {[state |-> "ok", bytes |-> c] : c \in Contents}

\* The files of at most one byte, for the runs in which the content only
\* matters through its digest.
ShortFileStates == {f \in FileStates : f.state # "ok" \/ Len(f.bytes) <= 1}

\* hashlib.md5(data).hexdigest(), taken to be injective; None.
Md5(data) == [md5 |-> data]
HashNone == [none |-> TRUE]

\* Variant that always digests the file from its first byte.
ReadForHashWhole(bytes) == bytes

\* f.seek(-10000 * 1024, 2); f.read() -- and, when the seek raises OSError
\* because the file is shorter than the window, f.seek(0); f.read().
ReadForHash(bytes) ==
    IF Len(bytes) >= WindowBytes
    THEN SubSeq(bytes, Len(bytes) - WindowBytes + 1, Len(bytes))
    ELSE bytes

\* The body of `with open(model_path, 'rb') as f:` in both runners: the
\* digest, or None when open() raises.
ComputeFileHash(f) ==
    IF f.state = "ok" THEN Md5(ReadForHash(f.bytes)) ELSE HashNone

\* get_model_hash of the MDX runner: [result, opened, table].
MdxGetModelHashResult(f, table, p) ==
    [result |-> ComputeFileHash(f), opened |-> TRUE, table |-> table]

\* Variant that looks in model_hash_table before it tests the path.
VrGetModelHashResultCacheFirst(f, table, p) ==
    IF table[p] # HashNone THEN [result |-> table[p], opened |-> FALSE, table |-> table]
    ELSE IF f.state = "absent" THEN [result |-> HashNone, opened |-> FALSE, table |-> table]
    ELSE LET h == ComputeFileHash(f) IN
         [result |-> h, opened |-> TRUE,
          table |-> IF h # HashNone THEN [table EXCEPT ![p] = h] ELSE table]

\* get_model_hash of the VR runner: the isfile test, the scan of
\* model_hash_table, the computation, the update of the table.
VrGetModelHashResult(f, table, p) ==
    IF f.state = "absent" THEN [result |-> HashNone, opened |-> FALSE, table |-> table]
    ELSE IF table[p] # HashNone THEN [result |-> table[p], opened |-> FALSE, table |-> table]
    ELSE LET h == ComputeFileHash(f) IN
         [result |-> h, opened |-> TRUE,
          table |-> IF h # HashNone THEN [table EXCEPT ![p] = h] ELSE table]

NoCall == [runner |-> "-", path |-> "-", isfile |-> FALSE, result |-> HashNone,
           opened |-> FALSE, prior |-> HashNone]
NotComputed == [computed |-> FALSE]

HashInit ==
    /\ files \in [Paths -> FileStates]
    /\ model_hash_table = [p \in Paths |-> HashNone]
    /\ last_call = NoCall
    /\ first_hash = [r \in HashRunners |-> [p \in Paths |-> HashNone]]
    /\ digested = [p \in Paths |-> NotComputed]
    /\ edits = 0

HashIdle ==
    /\ files = [p \in Paths |-> [state |-> "absent"]]
    /\ model_hash_table = [p \in Paths |-> HashNone]
    /\ last_call = NoCall
    /\ first_hash = [r \in HashRunners |-> [p \in Paths |-> HashNone]]
    /\ digested = [p \in Paths |-> NotComputed]
    /\ edits = 0

\* The bookkeeping of one call of get_model_hash by runner r for path p.
RecordCall(r, p, res) ==
    /\ last_call' = [runner |-> r, path |-> p, isfile |-> (files[p].state # "absent"),
                     result |-> res.result, opened |-> res.opened,
                     prior |-> first_hash[r][p]]
    /\ first_hash' = IF first_hash[r][p] = HashNone
                     THEN [first_hash EXCEPT ![r][p] = res.result]
                     ELSE first_hash
    /\ digested' = IF res.opened /\ res.result # HashNone
                   THEN [digested EXCEPT ![p] = [computed |-> TRUE, bytes |-> files[p].bytes,
                                                 hash |-> res.result]]
                   ELSE digested

MdxGetModelHash ==
    \E p \in Paths :
       LET res == MdxGetModelHashResult(files[p], model_hash_table, p) IN
       /\ RecordCall("mdx", p, res)
       /\ UNCHANGED <<files, model_hash_table, edits>>

VrGetModelHash ==
    \E p \in Paths :
       LET res == VrGetModelHashResult(files[p], model_hash_table, p) IN
       /\ RecordCall("vr", p, res)
       /\ model_hash_table' = res.table
       /\ UNCHANGED <<files, edits>>

\* What somebody can do to a model file between two calls: put a byte in
\* front of it, change its last byte, remove it.
EditsOf(f) ==
    IF f.state # "ok" THEN {}
    ELSE {[state |-> "absent"]}
         \cup {[state |-> "ok", bytes |-> <<b>> \o f.bytes] :
                 b \in {c \in Bytes : Len(f.bytes) < WindowBytes + MaxExtraBytes}}
         \cup {[state |-> "ok", bytes |-> [f.bytes EXCEPT ![Len(f.bytes)] = 1 - @]] :
                 b \in {c \in {0} : Len(f.bytes) > 0}}

EditFile ==
    /\ edits < MaxEdits
    /\ \E p \in Paths : \E f \in EditsOf(files[p]) :
          files' = [files EXCEPT ![p] = f]
    /\ edits' = edits + 1
    /\ UNCHANGED <<model_hash_table, last_call, first_hash, digested>>

(***************************************************************************)
(* get_model_hash of the VR runner called from several threads             *)
(***************************************************************************)
\* Number of threads that call get_model_hash.
NumCallers == 2
\* Upper bound on the calls one thread makes.
MaxCalls == 2

Callers == 1..NumCallers

NoIter == [used |-> -1, pos |-> 0]
IdleCaller == [pc |-> "idle", path |-> "-", model_hash |-> HashNone, it |-> NoIter,
               result |-> HashNone, calls |-> 0, scanned |-> 0]

ConcInit ==
    /\ files \in [Paths -> ShortFileStates]
    /\ model_hash_table = [p \in Paths |-> HashNone]
    /\ last_call = NoCall
    /\ first_hash = [r \in HashRunners |-> [p \in Paths |-> HashNone]]
    /\ digested = [p \in Paths |-> NotComputed]
    /\ edits = 0
    /\ key_order = <<>>
    /\ callers = [t \in Callers |-> IdleCaller]

ConcIdle ==
    /\ key_order = <<>>
    /\ callers = [t \in Callers |-> IdleCaller]

\* The test at the head of every next() of a dictionary iterator: the
\* dictionary changed size during iteration (RuntimeError).
DictIterRaises(it, keys) == it.used # Len(keys)

\* get_model_hash(model_path) is entered: model_hash = None.
GmhCall(t) ==
    /\ callers[t].pc = "idle"
    /\ callers[t].calls < MaxCalls
    /\ \E p \in Paths :
          callers' = [callers EXCEPT ![t] =
                        [pc |-> "isfile", path |-> p, model_hash |-> HashNone, it |-> NoIter,
                         result |-> HashNone, calls |-> @.calls + 1, scanned |-> 0]]
    /\ UNCHANGED <<hashVars, key_order>>

\* if not os.path.isfile(model_path): return None
GmhIsFile(t) ==
    /\ callers[t].pc = "isfile"
    /\ callers' = [callers EXCEPT ![t].pc =
                     IF files[callers[t].path].state = "absent" THEN "returned" ELSE "table"]
    /\ UNCHANGED <<hashVars, key_order>>

\* if model_hash_table: for (key, value) in model_hash_table.items():
\* the iterator is created over the table as it is now.
GmhIter(t) ==
    /\ callers[t].pc = "table"
    /\ callers' = [callers EXCEPT ![t] =
                     IF key_order = <<>>
                     THEN [@ EXCEPT !.pc = "test"]
                     ELSE [@ EXCEPT !.pc = "scan",
                                    !.it = [used |-> Len(key_order), pos |-> 0]]]
    /\ UNCHANGED <<hashVars, key_order>>

\* One turn of the for loop: next() of the iterator, then
\* if model_path == key: model_hash = value; break.  The loop is outside
\* the try block, so a RuntimeError leaves get_model_hash.
GmhScan(t) ==
    /\ callers[t].pc = "scan"
    /\ LET c == callers[t] IN
       callers' = [callers EXCEPT ![t] =
          IF DictIterRaises(c.it, key_order) THEN [c EXCEPT !.pc = "raised"]
          ELSE IF c.it.pos = c.it.used THEN [c EXCEPT !.pc = "test"]
          ELSE LET key == key_order[c.it.pos + 1] IN
               IF c.path = key
               THEN [c EXCEPT !.pc = "test", !.model_hash = model_hash_table[key],
                              !.scanned = @ + 1]
               ELSE [c EXCEPT !.it.pos = @ + 1, !.scanned = @ + 1]]
    /\ UNCHANGED <<hashVars, key_order>>

\* if not model_hash:
GmhTest(t) ==
    /\ callers[t].pc = "test"
    /\ LET c == callers[t] IN
       callers' = [callers EXCEPT ![t] =
                     IF c.model_hash # HashNone
                     THEN [c EXCEPT !.pc = "returned", !.result = c.model_hash]
                     ELSE [c EXCEPT !.pc = "open"]]
    /\ UNCHANGED <<hashVars, key_order>>

\* with open(model_path, 'rb') as f: ... hexdigest(); an exception is
\* swallowed by `except Exception: pass` and None is returned.
GmhRead(t) ==
    /\ callers[t].pc = "open"
    /\ LET h == ComputeFileHash(files[callers[t].path]) IN
       callers' = [callers EXCEPT ![t] =
                     IF h = HashNone
                     THEN [@ EXCEPT !.pc = "returned", !.result = HashNone]
                     ELSE [@ EXCEPT !.pc = "update", !.model_hash = h]]
    /\ UNCHANGED <<hashVars, key_order>>

\* model_hash_table.update({model_path: model_hash}); return model_hash
GmhUpdate(t) ==
    /\ callers[t].pc = "update"
    /\ LET c == callers[t] IN
       /\ model_hash_table' = [model_hash_table EXCEPT ![c.path] = c.model_hash]
       /\ key_order' = IF model_hash_table[c.path] = HashNone
                       THEN Append(key_order, c.path) ELSE key_order
       /\ callers' = [callers EXCEPT ![t] = [c EXCEPT !.pc = "returned", !.result = c.model_hash]]
    /\ UNCHANGED <<files, last_call, first_hash, digested, edits>>

\* The caller goes on with the value and may call again.
GmhReturn(t) ==
    /\ callers[t].pc = "returned"
    /\ callers' = [callers EXCEPT ![t].pc = "idle"]
    /\ UNCHANGED <<hashVars, key_order>>

(***************************************************************************)
(* cli.py: the unified command line                                        *)
(***************************************************************************)
\* Upper bound on the number of arguments after the command.
MaxArgs == 4

Commands == {"mdx", "demucs", "vr", "list", "download", "info", "help", "--help", "-h",
             "version", "--version", "-v", "nonexistent_command"}
ArgTokens == {"mdx", "demucs", "vr", "all", "invalid", "some-model", "--arch", "-a"}

RECURSIVE ArgSeqs(_)
\* All argument lists of length at most n.
ArgSeqs(n) ==
    IF n = 0 THEN {<<>>}
    ELSE LET shorter == ArgSeqs(n - 1) IN
         shorter \cup {Append(s, a) : s \in {t \in shorter : Len(t) = n - 1}, a \in ArgTokens}

\* The command lines: `uvr`, or `uvr <command> <arguments>`.  Only list and
\* download look at their arguments; the other commands get at most one.
CommandLines ==
    {<<"uvr">>}
    \cup {<<"uvr", c>> \o a : c \in {"list", "download"}, a \in ArgSeqs(MaxArgs)}
    \cup {<<"uvr", c>> \o a : c \in Commands \ {"list", "download"}, a \in ArgSeqs(1)}

RunnerModule(arch) == arch \o "_headless_runner"

\* One call _run_runner(module_name, suppress_errors) with the sys.argv set
\* just before it.
RunnerJob(arch, argv, suppress) ==
    [module |-> RunnerModule(arch), argv |-> <<"uvr-" \o arch>> \o argv, suppress |-> suppress]

\* What a dispatch comes to: the runner calls to make and the value main()
\* returns afterwards, -1 when it returns what the runner returned.
Dispatch(runs, ret) == [runs |-> runs, ret |-> ret]

cmd_list(cmd_args) ==
    LET arch == IF cmd_args # <<>> THEN cmd_args[1] ELSE "all" IN
    IF arch \in {"mdx", "demucs", "vr"}
    THEN Dispatch(<<RunnerJob(arch, <<"--list">>, FALSE)>>, -1)
    ELSE IF arch = "all"
    THEN Dispatch(<<RunnerJob("mdx", <<"--list">>, TRUE),
                    RunnerJob("demucs", <<"--list">>, TRUE),
                    RunnerJob("vr", <<"--list">>, TRUE)>>, 0)
    ELSE Dispatch(<<>>, 1)

RECURSIVE ParseArch(_, _, _)
\* The while loop of cmd_download over rest_args from index i (1-based),
\* with the value of arch so far.
ParseArch(rest_args, i, arch) ==
    IF i > Len(rest_args) THEN arch
    ELSE IF rest_args[i] \in {"--arch", "-a"} /\ i + 1 <= Len(rest_args)
    THEN ParseArch(rest_args, i + 2, rest_args[i + 1])
    ELSE ParseArch(rest_args, i + 1, arch)

\* Variant that hands an architecture it does not know to the MDX runner.
cmd_download_default_mdx(cmd_args) ==
    IF cmd_args = <<>> THEN Dispatch(<<>>, 1)
    ELSE LET arch == ParseArch(Tail(cmd_args), 1, "None") IN
         IF arch = "None" THEN Dispatch(<<>>, 1)
         ELSE IF arch \in {"mdx", "demucs", "vr"}
         THEN Dispatch(<<RunnerJob(arch, <<"--download", cmd_args[1]>>, FALSE)>>, -1)
         ELSE Dispatch(<<RunnerJob("mdx", <<"--download", cmd_args[1]>>, FALSE)>>, -1)

cmd_download(cmd_args) ==
    IF cmd_args = <<>> THEN Dispatch(<<>>, 1)
    ELSE LET model_name == cmd_args[1]
             arch == ParseArch(Tail(cmd_args), 1, "None") IN
         IF arch = "None" THEN Dispatch(<<>>, 1)
         ELSE IF arch \in {"mdx", "demucs", "vr"}
         THEN Dispatch(<<RunnerJob(arch, <<"--download", model_name>>, FALSE)>>, -1)
         ELSE Dispatch(<<>>, 1)

\* Variant in which `info` is handed to the MDX runner.
cli_main_info_runs_mdx(argv) ==
    IF Len(argv) < 2 THEN Dispatch(<<>>, 0)
    ELSE LET command == argv[2]
             remaining_args == SubSeq(argv, 3, Len(argv)) IN
         IF command \in {"mdx", "demucs", "vr"}
         THEN Dispatch(<<RunnerJob(command, remaining_args, FALSE)>>, -1)
         ELSE IF command = "list" THEN cmd_list(remaining_args)
         ELSE IF command = "download" THEN cmd_download(remaining_args)
         ELSE IF command = "info" THEN Dispatch(<<RunnerJob("mdx", <<"--info">>, FALSE)>>, -1)
         ELSE IF command \in {"help", "--help", "-h"} THEN Dispatch(<<>>, 0)
         ELSE IF command \in {"version", "--version", "-v"} THEN Dispatch(<<>>, 0)
         ELSE Dispatch(<<>>, 1)

\* cli.main() up to its first call of _run_runner or its return.
cli_main(argv) ==
    IF Len(argv) < 2 THEN Dispatch(<<>>, 0)
    ELSE LET command == argv[2]
             remaining_args == SubSeq(argv, 3, Len(argv)) IN
         IF command \in {"mdx", "demucs", "vr"}
         THEN Dispatch(<<RunnerJob(command, remaining_args, FALSE)>>, -1)
         ELSE IF command = "list" THEN cmd_list(remaining_args)
         ELSE IF command = "download" THEN cmd_download(remaining_args)
         ELSE IF command = "info" THEN Dispatch(<<>>, 0)
         ELSE IF command \in {"help", "--help", "-h"} THEN Dispatch(<<>>, 0)
         ELSE IF command \in {"version", "--version", "-v"} THEN Dispatch(<<>>, 0)
         ELSE Dispatch(<<>>, 1)

\* How importing a runner module and calling its main() can end.
RunnerOutcomes == {"return 0", "return 1", "ImportError", "SystemExit(0)", "SystemExit(2)",
                   "Exception"}

\* _run_runner: the value it returns, or that it raises.
RunRunnerResult(outcome, suppress_errors) ==
    IF outcome = "return 0" THEN [raised |-> FALSE, code |-> 0]
    ELSE IF outcome = "return 1" THEN [raised |-> FALSE, code |-> 1]
    ELSE IF outcome = "ImportError" THEN [raised |-> FALSE, code |-> 1]
    ELSE IF outcome = "SystemExit(0)" THEN [raised |-> FALSE, code |-> 0]
    ELSE IF outcome = "SystemExit(2)" THEN [raised |-> FALSE, code |-> 2]
    ELSE IF suppress_errors THEN [raised |-> FALSE, code |-> 1]
    ELSE [raised |-> TRUE, code |-> 1]

CliInit ==
    /\ sys_argv \in CommandLines
    /\ cli_pc = "main"
    /\ cli_pending = <<>>
    /\ cli_ret = -1
    /\ cli_ran = <<>>
    /\ cli_exit = -1

CliIdle ==
    /\ sys_argv = <<"uvr">>
    /\ cli_pc = "idle"
    /\ cli_pending = <<>>
    /\ cli_ret = -1
    /\ cli_ran = <<>>
    /\ cli_exit = -1

\* main() looks at the command and either returns or sets sys.argv for a
\* runner.
CliMain ==
    /\ cli_pc = "main"
    /\ LET d == cli_main(sys_argv) IN
       /\ cli_pending' = d.runs
       /\ cli_ret' = d.ret
       /\ cli_pc' = IF d.runs = <<>> THEN "done" ELSE "run"
       /\ cli_exit' = IF d.runs = <<>> THEN d.ret ELSE cli_exit
    /\ UNCHANGED <<sys_argv, cli_ran>>

\* One call of _run_runner; an exception that is not suppressed leaves
\* main(), and the interpreter exits with code 1.
CliRunRunner ==
    /\ cli_pc = "run"
    /\ LET job == Head(cli_pending) IN
       \E outcome \in RunnerOutcomes :
          LET r == RunRunnerResult(outcome, job.suppress) IN
          /\ cli_ran' = Append(cli_ran, job.module)
          /\ cli_pending' = Tail(cli_pending)
          /\ IF r.raised
             THEN cli_pc' = "raised" /\ cli_exit' = 1
             ELSE IF Tail(cli_pending) = <<>>
             THEN cli_pc' = "done" /\ cli_exit' = (IF cli_ret = -1 THEN r.code ELSE cli_ret)
             ELSE cli_pc' = "run" /\ cli_exit' = cli_exit
    /\ UNCHANGED <<sys_argv, cli_ret>>

(***************************************************************************)
(* main(): actions                                                         *)
(***************************************************************************)
RunIdle ==
    /\ runner = "mdx"
    /\ args = [cpu |-> FALSE, gpu |-> FALSE, directml |-> FALSE]
    /\ cuda_available = FALSE
    /\ modelOnDisk = TRUE
    /\ setupState = "ok"
    /\ pc = "idle"
    /\ use_gpu = "None"
    /\ current_use_gpu = "None"
    /\ gpu_fallback_attempted = FALSE
    /\ attempts = <<>>
    /\ reclaim = "-"
    /\ exit_code = -1

RunInit ==
    /\ runner \in Runners
    /\ args \in [cpu : BOOLEAN, gpu : BOOLEAN, directml : BOOLEAN]
    /\ cuda_available \in BOOLEAN
    /\ modelOnDisk \in BOOLEAN
    /\ setupState \in {"ok", "raises", "status_false"}
    /\ (setupState = "status_false" => runner = "vr")
    /\ pc = "start"
    /\ use_gpu = "None"
    /\ current_use_gpu = "None"
    /\ gpu_fallback_attempted = FALSE
    /\ attempts = <<>>
    /\ reclaim = "-"
    /\ exit_code = -1

\* use_gpu = ...; gpu_fallback_attempted = False; current_use_gpu = use_gpu
SelectDevice ==
    /\ pc = "start"
    /\ use_gpu' = SelectUseGpu(runner, args, cuda_available)
    /\ current_use_gpu' = SelectUseGpu(runner, args, cuda_available)
    /\ gpu_fallback_attempted' = FALSE
    /\ pc' = IF HasFallbackLoop(runner) THEN "resolve" ELSE "loop"
    /\ UNCHANGED <<runner, args, cuda_available, modelOnDisk, setupState,
                   attempts, reclaim, exit_code>>

\* Variant in which a missing model is not noticed before the loop.
ResolveRaisesLater(found) == FALSE

\* resolve_model_path raises FileNotFoundError when nothing is found.
ResolveRaises(found) == ~found

\* try: model_path = resolve_model_path(...) except FileNotFoundError: return 1
ResolveModelPath ==
    /\ pc = "resolve"
    /\ IF ResolveRaises(modelOnDisk)
       THEN pc' = "done" /\ exit_code' = 1
       ELSE pc' = "loop" /\ UNCHANGED exit_code
    /\ UNCHANGED <<runner, args, cuda_available, modelOnDisk, setupState, use_gpu,
                   current_use_gpu, gpu_fallback_attempted, attempts, reclaim>>

NewAttempt ==
    [use_gpu  |-> current_use_gpu,
     gpu      |-> EffectiveGpu(current_use_gpu, cuda_available),
     directml |-> EffectiveDirectml(runner, args, gpu_fallback_attempted),
     fallback |-> gpu_fallback_attempted,
     sep      |-> FALSE,
     outcome  |-> "pending",
     category |-> "-",
     recoverable |-> FALSE,
     error    |-> NoError]

\* What run_*_headless does before it constructs the Separator:
\* the MDX runner checks the model file itself; VR returns False when
\* model_status is False; anything else that goes wrong raises.
SetupResult(r, found, setup) ==
    IF r = "mdx" /\ ~found THEN "raises_not_found"
    ELSE setup

\* try: run_*_headless(...) up to the call of separator.seperate()
CallRunner ==
    /\ pc = "loop"
    /\ Len(attempts) < MaxAttempts
    /\ LET att == Append(attempts, NewAttempt)
           res == SetupResult(runner, modelOnDisk, setupState) IN
       \/ /\ res = "ok"
          /\ attempts' = [att EXCEPT ![Len(att)].sep = TRUE]
          /\ pc' = "running"
          /\ UNCHANGED <<gpu_fallback_attempted, current_use_gpu, reclaim, exit_code>>
       \/ /\ res = "status_false"
          /\ attempts' = [att EXCEPT ![Len(att)].outcome = "status_false"]
          /\ pc' = "done"
          /\ exit_code' = 1
          /\ UNCHANGED <<gpu_fallback_attempted, current_use_gpu, reclaim>>
       \/ /\ res \in {"raises", "raises_not_found"}
          /\ \E e \in SetupErrors, r \in ReclaimOutcomes :
                /\ (res = "raises_not_found" => e.type = "FileNotFoundError")
                /\ HandleException(att, e, r)
    /\ UNCHANGED <<runner, args, cuda_available, modelOnDisk, setupState, use_gpu>>

\* Variant whose exit code remembers the failure of an earlier attempt.
SeparatorReturnsRemembering ==
    /\ pc = "running"
    /\ attempts' = CloseAttempt(attempts, "ok", NoInfo)
    /\ pc' = "done"
    /\ exit_code' = IF Len(attempts) > 1 THEN 1 ELSE 0
    /\ UNCHANGED <<runner, args, cuda_available, modelOnDisk, setupState, use_gpu,
                   current_use_gpu, gpu_fallback_attempted, reclaim>>

\* separator.seperate() returns; run_*_headless returns; main returns 0.
SeparatorReturns ==
    /\ pc = "running"
    /\ attempts' = CloseAttempt(attempts, "ok", NoInfo)
    /\ pc' = "done"
    /\ exit_code' = 0
    /\ UNCHANGED <<runner, args, cuda_available, modelOnDisk, setupState, use_gpu,
                   current_use_gpu, gpu_fallback_attempted, reclaim>>

\* separator.seperate() raises e; the except branch of main() runs.
SeparatorRaises ==
    /\ pc = "running"
    /\ \E e \in Errors, r \in ReclaimOutcomes : HandleException(attempts, e, r)
    /\ UNCHANGED <<runner, args, cuda_available, modelOnDisk, setupState, use_gpu>>

ResolveIdle ==
    /\ env = [ext |-> "other", kwargs |-> [verbose |-> FALSE], explicit |-> Unread,
              hashfile |-> <<Unread, Unread>>, registry |-> Unread, artifact |-> Unread]
    /\ rpc = "idle"
    /\ model_hash = "None"
    /\ hashed_after = -1
    /\ model_data = NewModelData("other", [verbose |-> FALSE])
    /\ source = "-"
    /\ consulted = <<>>

InitRun == RunInit /\ ResolveIdle /\ VrIdle /\ DemucsIdle /\ HashIdle /\ ConcIdle /\ CliIdle

NextRun ==
    \/ SelectDevice /\ UNCHANGED <<resVars, vrVars, dmVars, hashVars, concVars, cliVars>>
    \/ ResolveModelPath /\ UNCHANGED <<resVars, vrVars, dmVars, hashVars, concVars, cliVars>>
    \/ CallRunner /\ UNCHANGED <<resVars, vrVars, dmVars, hashVars, concVars, cliVars>>
    \/ SeparatorReturns /\ UNCHANGED <<resVars, vrVars, dmVars, hashVars, concVars, cliVars>>
    \/ SeparatorRaises /\ UNCHANGED <<resVars, vrVars, dmVars, hashVars, concVars, cliVars>>

SpecRun == InitRun /\ [][NextRun]_vars

\* Every Separator call returns or raises, and main() keeps executing.
SpecRunFair == SpecRun /\ WF_vars(NextRun)

InitResolve == ResolveInit /\ RunIdle /\ VrIdle /\ DemucsIdle /\ HashIdle /\ ConcIdle /\ CliIdle

NextResolve ==
    \/ ComputeHash /\ UNCHANGED <<runVars, vrVars, dmVars, hashVars, concVars, cliVars>>
    \/ TierExplicit /\ UNCHANGED <<runVars, vrVars, dmVars, hashVars, concVars, cliVars>>
    \/ TierHashFile /\ UNCHANGED <<runVars, vrVars, dmVars, hashVars, concVars, cliVars>>
    \/ TierRegistry /\ UNCHANGED <<runVars, vrVars, dmVars, hashVars, concVars, cliVars>>
    \/ TierIntrospect /\ UNCHANGED <<runVars, vrVars, dmVars, hashVars, concVars, cliVars>>
    \/ TierDefaults /\ UNCHANGED <<runVars, vrVars, dmVars, hashVars, concVars, cliVars>>
    \/ MdxBuildSeparator /\ UNCHANGED <<runVars, vrVars, dmVars, hashVars, concVars, cliVars>>

SpecResolve == InitResolve /\ [][NextResolve]_vars

\* The configuration lookups of the three runners side by side: one run of
\* the MDX cascade, of the VR lookup or of create_demucs_model_data.
InitVr == VrInit /\ RunIdle /\ ResolveIdle /\ DemucsIdle /\ HashIdle /\ ConcIdle /\ CliIdle
InitDemucs == DemucsInit /\ RunIdle /\ ResolveIdle /\ VrIdle /\ HashIdle /\ ConcIdle /\ CliIdle

NextVr ==
    \/ VrCreateModelData /\ UNCHANGED <<runVars, resVars, dmVars, hashVars, concVars, cliVars>>
    \/ VrUseModelPath /\ UNCHANGED <<runVars, resVars, dmVars, hashVars, concVars, cliVars>>
    \/ VrUserParamsStep /\ UNCHANGED <<runVars, resVars, dmVars, hashVars, concVars, cliVars>>
    \/ VrCheckStatus /\ UNCHANGED <<runVars, resVars, dmVars, hashVars, concVars, cliVars>>
    \/ VrMainReturnsOne /\ UNCHANGED <<runVars, resVars, dmVars, hashVars, concVars, cliVars>>

NextDemucs == CreateDemucsModelData /\ UNCHANGED <<runVars, resVars, vrVars, hashVars, concVars, cliVars>>

\* Calls of get_model_hash by the two runners, one after the other, on
\* files that may change in between.
InitHash == HashInit /\ RunIdle /\ ResolveIdle /\ VrIdle /\ DemucsIdle /\ ConcIdle /\ CliIdle

NextHash ==
    \/ MdxGetModelHash /\ UNCHANGED <<runVars, resVars, vrVars, dmVars, concVars, cliVars>>
    \/ VrGetModelHash /\ UNCHANGED <<runVars, resVars, vrVars, dmVars, concVars, cliVars>>
    \/ EditFile /\ UNCHANGED <<runVars, resVars, vrVars, dmVars, concVars, cliVars>>

SpecHash == InitHash /\ [][NextHash]_vars

\* Threads of one process calling the VR get_model_hash at the same time.
InitConc == ConcInit /\ RunIdle /\ ResolveIdle /\ VrIdle /\ DemucsIdle /\ CliIdle

NextConc ==
    \/ \E t \in Callers : GmhCall(t) /\ UNCHANGED <<runVars, resVars, vrVars, dmVars, cliVars>>
    \/ \E t \in Callers : GmhIsFile(t) /\ UNCHANGED <<runVars, resVars, vrVars, dmVars, cliVars>>
    \/ \E t \in Callers : GmhIter(t) /\ UNCHANGED <<runVars, resVars, vrVars, dmVars, cliVars>>
    \/ \E t \in Callers : GmhScan(t) /\ UNCHANGED <<runVars, resVars, vrVars, dmVars, cliVars>>
    \/ \E t \in Callers : GmhTest(t) /\ UNCHANGED <<runVars, resVars, vrVars, dmVars, cliVars>>
    \/ \E t \in Callers : GmhRead(t) /\ UNCHANGED <<runVars, resVars, vrVars, dmVars, cliVars>>
    \/ \E t \in Callers : GmhUpdate(t) /\ UNCHANGED <<runVars, resVars, vrVars, dmVars, cliVars>>
    \/ \E t \in Callers : GmhReturn(t) /\ UNCHANGED <<runVars, resVars, vrVars, dmVars, cliVars>>

SpecConc == InitConc /\ [][NextConc]_vars

\* One invocation of the `uvr` command.
InitCli == CliInit /\ RunIdle /\ ResolveIdle /\ VrIdle /\ DemucsIdle /\ HashIdle /\ ConcIdle

NextCli ==
    \/ CliMain /\ UNCHANGED <<runVars, resVars, vrVars, dmVars, hashVars, concVars>>
    \/ CliRunRunner /\ UNCHANGED <<runVars, resVars, vrVars, dmVars, hashVars, concVars>>

SpecCli == InitCli /\ [][NextCli]_vars

InitConfig == InitResolve \/ InitVr \/ InitDemucs
NextConfig == NextResolve \/ NextVr \/ NextDemucs
SpecConfig == InitConfig /\ [][NextConfig]_vars

(***************************************************************************)
(* Properties of main() (SpecRun, SpecRunFair)                             *)
(***************************************************************************)
SepCalls == Cardinality({i \in 1..Len(attempts) : attempts[i].sep})

IsRecoverableGpuFailure(a) ==
    a.outcome = "raised" /\ a.category = "GPU" /\ a.recoverable

\* C1: in the VR and Demucs runners, when the run reaches the Separator, the
\* device is not forced to CPU and every Separator invocation raises a
\* recoverable GPU error, the finished run has invoked the Separator exactly
\* twice and returned exit code 1; there is never a third invocation.
C1_TwoInvocationsThenFail ==
    ( /\ runner \in {"demucs", "vr"}
      /\ pc # "start"
      /\ use_gpu # "False"
      /\ \A i \in 1..Len(attempts) :
            attempts[i].sep /\ attempts[i].outcome # "pending"
               => IsRecoverableGpuFailure(attempts[i]) )
    => /\ SepCalls <= 2
       /\ (pc = "done" /\ SepCalls >= 1 => SepCalls = 2 /\ exit_code = 1)

C1_Witness ==
    /\ runner \in {"demucs", "vr"}
    /\ pc = "done"
    /\ use_gpu # "False"
    /\ SepCalls = 2
    /\ \A i \in 1..2 : attempts[i].sep /\ IsRecoverableGpuFailure(attempts[i])
    /\ exit_code = 1

\* C2: whatever the Separator outcomes, a request makes at most two attempts
\* and at most one of them starts after a fallback, and
\* gpu_fallback_attempted never goes from true back to false.
C2_AtMostOneFallback ==
    /\ [](/\ Len(attempts) <= 2
          /\ Cardinality({i \in 1..Len(attempts) : attempts[i].fallback}) <= 1
          /\ (Len(attempts) = 2 => ~attempts[1].fallback /\ attempts[2].fallback))
    /\ [][gpu_fallback_attempted => gpu_fallback_attempted']_vars

C2_Witness ==
    /\ pc = "done"
    /\ Len(attempts) = 2
    /\ gpu_fallback_attempted
    /\ IsRecoverableGpuFailure(attempts[2])

\* C3: when use_gpu is False before the first attempt, no fallback is ever
\* performed: there is one attempt, the Separator is invoked at most once,
\* and a failure of that attempt ends the run with exit code 1.
C3_ForcedCpuNoFallback ==
    (pc # "start" /\ use_gpu = "False")
    => /\ ~gpu_fallback_attempted
       /\ Len(attempts) <= 1
       /\ SepCalls <= 1
       /\ \A i \in 1..Len(attempts) :
             attempts[i].outcome = "raised" => pc = "done" /\ exit_code = 1

C3_Witness ==
    /\ use_gpu = "False"
    /\ pc = "done"
    /\ Len(attempts) = 1
    /\ attempts[1].sep
    /\ IsRecoverableGpuFailure(attempts[1])

\* C4: in the VR and Demucs runners a failed attempt is followed by another
\* attempt iff the error is in the GPU category, recoverable, no fallback
\* had been attempted and the preference was not CPU; then the flag is set
\* and the preference is CPU, otherwise the run is over with exit code 1.
C4_RetryIffFourConditions ==
    runner \in {"demucs", "vr"} =>
    \A i \in 1..Len(attempts) :
        attempts[i].outcome = "raised" =>
            LET cond == /\ attempts[i].category = "GPU"
                        /\ attempts[i].recoverable
                        /\ ~attempts[i].fallback
                        /\ attempts[i].use_gpu # "False"
                retried == i < Len(attempts) \/ (i = Len(attempts) /\ pc = "loop")
            IN /\ cond <=> retried
               /\ cond => /\ gpu_fallback_attempted
                          /\ current_use_gpu = "False"
                          /\ (i < Len(attempts) =>
                                /\ attempts[i+1].use_gpu = "False"
                                /\ attempts[i+1].sep = attempts[i].sep)
               /\ ~cond => /\ pc = "done"
                           /\ exit_code = 1
                           /\ i = Len(attempts)

C4_Witness ==
    /\ runner \in {"demucs", "vr"}
    /\ Len(attempts) = 2
    /\ attempts[1].sep /\ attempts[2].sep
    /\ IsRecoverableGpuFailure(attempts[1])
    /\ attempts[2].outcome = "raised"
    /\ attempts[2].category = "FILE_SYSTEM"
    /\ pc = "done"

\* C5: in each of the three runners (MDX, Demucs, VR) a recoverable GPU
\* failure of the first attempt, with the device not forced to CPU, is
\* followed by one retry of the job on CPU.
C5_AllRunnersRetryOnCpu ==
    ( /\ pc = "done"
      /\ Len(attempts) >= 1
      /\ attempts[1].sep
      /\ IsRecoverableGpuFailure(attempts[1])
      /\ attempts[1].use_gpu # "False" )
    => /\ Len(attempts) = 2
       /\ attempts[2].use_gpu = "False"
       /\ attempts[2].sep

\* C6: whenever the fallback branch is taken the next attempt is made,
\* whether the memory reclamation succeeded, was skipped or raised.
C6_ReclaimFailureDoesNotBlockRetry ==
    gpu_fallback_attempted =>
        /\ reclaim \in ReclaimOutcomes
        /\ (Len(attempts) = 1 => pc = "loop")
        /\ (pc = "done" => /\ Len(attempts) = 2
                           /\ attempts[2].sep = attempts[1].sep)

C6_Witness ==
    /\ gpu_fallback_attempted
    /\ reclaim = "raised"
    /\ Len(attempts) = 2
    /\ attempts[1].sep
    /\ attempts[2].sep
    /\ attempts[2].gpu = FALSE

\* C7: when the model path cannot be resolved to a file, the Separator is
\* never invoked, no fallback is attempted and the run ends with exit code 1;
\* the VR and Demucs main() do not even start an attempt.
C7_MissingModelFailsDirectly ==
    ~modelOnDisk =>
        /\ \A i \in 1..Len(attempts) : ~attempts[i].sep
        /\ pc # "running"
        /\ ~gpu_fallback_attempted
        /\ (runner \in {"demucs", "vr"} => attempts = <<>>)
        /\ Len(attempts) <= 1
        /\ (pc = "done" => exit_code = 1)

C7_Witness ==
    /\ ~modelOnDisk
    /\ runner = "vr"
    /\ setupState = "ok"
    /\ pc = "done"
    /\ exit_code = 1
    /\ attempts = <<>>

\* C8: if every Separator invocation returns or raises, every run reaches a
\* terminal state and stays there, having gone back from a failed attempt
\* to a new one at most once.
C8_RunTerminates ==
    <>[](pc = "done" /\ exit_code \in {0, 1} /\ Len(attempts) <= 2)

C8_Witness ==
    /\ pc = "done"
    /\ Len(attempts) = 2
    /\ attempts[2].outcome = "ok"
    /\ exit_code = 0

(***************************************************************************)
(* Properties of _load_model_config (SpecResolve)                          *)
(***************************************************************************)
CascadeOrder == <<"explicit", "hash_file", "registry", "introspect", "defaults">>

SourceTier == CASE source = "explicit"     -> 1
                [] source = "hash_file"    -> 2
                [] source = "registry"     -> 3
                [] source = "introspected" -> 4
                [] source = "default"      -> 5
                [] OTHER                   -> 0

OutcomeOf(f) == Get(f, "outcome", "unread")

\* What the resolver saw at tier j: "hit", "missed" (absent, skipped or
\* failed) or "unread" (never looked at).
TierSaw(j) ==
    CASE j = 1 -> IF OutcomeOf(env.explicit) \in {"miss", "fail"} THEN "missed"
                  ELSE OutcomeOf(env.explicit)
      [] j = 2 -> IF OutcomeOf(env.hashfile[1]) = "hit" \/ OutcomeOf(env.hashfile[2]) = "hit"
                     THEN "hit"
                  ELSE IF /\ OutcomeOf(env.hashfile[1]) \in {"miss", "fail"}
                          /\ OutcomeOf(env.hashfile[2]) \in {"miss", "fail"}
                     THEN "missed"
                  ELSE IF model_hash = "None" /\ Len(consulted) >= 2 /\ consulted[2] = "hash_file"
                     THEN "missed"
                  ELSE "unread"
      [] j = 3 -> IF OutcomeOf(env.registry) = "miss" THEN "missed"
                  ELSE OutcomeOf(env.registry)
      [] j = 4 -> IF OutcomeOf(env.artifact) = "miss" THEN "missed"
                  ELSE OutcomeOf(env.artifact)
      [] OTHER -> IF source = "default" THEN "hit" ELSE "unread"

\* C9: the tiers are consulted in the order explicit, hash file, registry,
\* introspection, defaults; a returned configuration comes from tier k only
\* if every tier before k was consulted and missed or failed, tier k hit,
\* and no tier after k was looked at.
C9_OrderedCascade ==
    /\ Len(consulted) <= Len(CascadeOrder)
    /\ consulted = SubSeq(CascadeOrder, 1, Len(consulted))
    /\ (rpc = "done" =>
          /\ SourceTier \in 1..5
          /\ Len(consulted) = SourceTier
          /\ \A j \in 1..5 :
                /\ j < SourceTier => TierSaw(j) = "missed"
                /\ j = SourceTier => TierSaw(j) = "hit"
                /\ j > SourceTier => TierSaw(j) = "unread")

C9_Witness ==
    /\ rpc = "done"
    /\ source = "registry"
    /\ env.explicit.outcome = "fail"
    /\ env.hashfile[1].outcome = "fail"
    /\ env.hashfile[2].outcome = "miss"
    /\ env.artifact = Unread

\* C10: for an existing artifact the resolution never raises, whatever the
\* metadata (explicit file, per-hash file, registry entry, preset document,
\* artifact binary) looks like.
C10_ResolveNeverRaises == rpc # "raised"

\* C11: every configuration returned by _load_model_config has both
\* primary_stem and secondary_stem set (not None), whichever tier produced
\* it, an entry naming a preset document that cannot be found included.
C11_StemsNonNull ==
    rpc = "done" => model_data.primary_stem # "None" /\ model_data.secondary_stem # "None"

(***************************************************************************)
(* Properties of the configuration lookups (SpecConfig)                    *)
(***************************************************************************)
\* Both stems unset, or both set with the secondary stem the complement of
\* the primary stem.
StemsPaired(md) ==
    /\ (md.primary_stem = "None") <=> (md.secondary_stem = "None")
    /\ (md.primary_stem # "None" => md.secondary_stem = secondary_stem(md.primary_stem))

\* C12: in the MDX, VR and Demucs lookups the secondary stem is the complement
\* of the primary stem whenever the primary stem is set, no configuration has
\* exactly one of the two stems set, and every step that changes the primary
\* stem leaves the secondary stem re-derived from it.
C12_SecondaryIsComplement ==
    /\ [](StemsPaired(model_data) /\ StemsPaired(vr_model_data)
           /\ StemsPaired(demucs_model_data))
    /\ [][/\ (model_data.primary_stem' # model_data.primary_stem
                => model_data.secondary_stem' = secondary_stem(model_data.primary_stem'))
           /\ (vr_model_data.primary_stem' # vr_model_data.primary_stem
                => vr_model_data.secondary_stem' = secondary_stem(vr_model_data.primary_stem'))
           /\ (demucs_model_data.primary_stem' # demucs_model_data.primary_stem
                => demucs_model_data.secondary_stem'
                      = secondary_stem(demucs_model_data.primary_stem'))]_vars

C12_Witness ==
    /\ vpc = "SeperateVR"
    /\ vr_env.custom_path
    /\ vr_env.default_file.state = "ok"
    /\ vr_model_data.model_data = [vr_model_param |-> "4band_v3", primary_stem |-> DRUM_STEM]
    /\ vr_env.table # <<>>
    /\ vr_model_data.primary_stem = DRUM_STEM
    /\ vr_model_data.secondary_stem = "No Drums"

\* The MDX cascade found no explicit file, no per-hash file, no registry key
\* and nothing in the artifact.
MdxNothingMatched ==
    /\ Len(consulted) >= 4
    /\ env.explicit.state = "absent"
    /\ (model_hash = "None" \/ (env.hashfile[1].state = "absent"
                                  /\ env.hashfile[2].state = "absent"))
    /\ env.registry.outcome = "miss"
    /\ env.artifact.outcome = "miss"

MdxReturned == rpc \in {"done", "SeperateMDX", "SeperateMDXC"}

\* What the defaults tier is to produce from the keyword arguments.
IsDefaultConfig(md, kw) ==
    /\ md.mdx_dim_f_set = Get(kw, "mdx_dim_f_set", 3072)
    /\ md.mdx_dim_t_set = Get(kw, "mdx_dim_t_set", 8)
    /\ md.mdx_n_fft_scale_set = Get(kw, "mdx_n_fft_scale_set", 6144)
    /\ md.compensate = Get(kw, "compensate", 1035)
    /\ md.primary_stem = Get(kw, "primary_stem", VOCAL_STEM)
    /\ md.secondary_stem = secondary_stem(md.primary_stem)
    /\ ~md.is_mdx_c

\* Nothing is on record for the fingerprint of the VR model file: no
\* {hash}.json, no key of model_data.json containing it.
VrNothingMatched ==
    /\ vr_model_data.model_hash \in Hashes
    /\ vr_env.hashfile[vr_model_data.model_hash].state = "absent"
    /\ \A i \in 1..Len(vr_env.table) :
           ~HashInKey(vr_model_data.model_hash, vr_env.table[i].key)

VrReturned == vpc \in {"SeperateVR", "returned_false"}

UserParamsUsable ==
    /\ vr_env.user_params.vr_model_param # "None"
    /\ vr_env.user_params.primary_stem # "None"
    /\ vr_env.user_params.vr_model_param = "4band_v3"

\* MDX half of C13: with nothing on record the cascade does not raise and
\* returns the default configuration, and the Separator is constructed.
MdxDegradesToDefault ==
    MdxNothingMatched =>
        /\ rpc # "raised"
        /\ (rpc = "defaults" \/ MdxReturned)
        /\ (MdxReturned => /\ source = "default"
                            /\ IsDefaultConfig(model_data, env.kwargs)
                            /\ rpc # "SeperateMDXC")

C13_WitnessMdx ==
    /\ rpc = "SeperateMDX"
    /\ MdxNothingMatched
    /\ model_hash # "None"
    /\ source = "default"

\* C14: when the explicit file is supplied and parses, the configuration has
\* source explicit and get_model_hash was not called on the way; when the
\* fingerprint is computed, the explicit tier has been consulted and missed.
C14_NoHashOnExplicitPath ==
    MdxReturned =>
        /\ (source = "explicit" => hashed_after = -1)
        /\ (hashed_after # -1 =>
              /\ hashed_after >= 1
              /\ env.explicit.outcome \in {"miss", "fail"})

OverrideFields == {"mdx_dim_f_set", "mdx_dim_t_set", "mdx_n_fft_scale_set",
                   "compensate", "primary_stem"}
NoOverrides == [verbose |-> FALSE]

\* C15: in a configuration returned by the per-hash file, the registry, the
\* introspection or the defaults, every field given in the overrides has the
\* override's value; a configuration returned by the explicit file is the
\* one the file gives when there are no overrides at all.
C15_OverridesWinExceptExplicit ==
    MdxReturned =>
        /\ (source \in {"hash_file", "registry", "introspected", "default"} =>
              \A k \in OverrideFields :
                 Has(env.kwargs, k) => model_data[k] = env.kwargs[k])
        /\ (source = "explicit" =>
              model_data = ExplicitResult(NewModelData(env.ext, NoOverrides),
                                          [fmt |-> env.explicit.fmt,
                                           file |-> [state |-> "ok", doc |-> env.explicit.doc]],
                                          NoOverrides).md)

\* The entries stored under exactly the fingerprint h in the VR table.
VrExactEntries(h) ==
    {vr_env.table[i].settings : i \in {j \in 1..Len(vr_env.table) : vr_env.table[j].key = h}}

\* C16: with no explicit file and no per-hash file, the configuration comes
\* from the registry iff the fingerprint is a key of the table, and is then
\* the entry stored under that very key, in the MDX cascade and in the VR
\* lookup alike.
C16_RegistryIffExactKey ==
    /\ ( /\ MdxReturned
          /\ env.explicit.state = "absent"
          /\ (model_hash = "None" \/ (env.hashfile[1].state = "absent"
                                        /\ env.hashfile[2].state = "absent")) )
        => /\ source = "registry" <=> /\ model_hash # "None"
                                       /\ env.registry.state = "table"
                                       /\ model_hash \in env.registry.keys
           /\ (source = "registry" =>
                  model_data = ApplyConfig(NewModelData(env.ext, env.kwargs),
                                           env.registry.entry, env.kwargs).md)
    /\ ( /\ VrReturned
          /\ vr_model_data.model_hash \in Hashes
          /\ vr_env.hashfile[vr_model_data.model_hash].state = "absent" )
        => /\ (vr_model_data.found_by = "mapper" =>
                  /\ VrExactEntries(vr_model_data.model_hash) # {}
                  /\ vr_model_data.model_data \in VrExactEntries(vr_model_data.model_hash))
           /\ (VrExactEntries(vr_model_data.model_hash) \ {EmptyDict} # {} =>
                  vr_model_data.found_by = "mapper")

\* C17: when the earlier tiers found nothing and the checkpoint carries a
\* hyper-parameter block, the configuration is the introspected one: dim_f
\* and n_fft are the block's, and for every positive raw dim_t the exponent e
\* satisfies 2^e <= dim_t < 2^(e+1) (256 gives 8), so that 2^e is the raw
\* dim_t exactly when the raw dim_t is a power of two.
C17_CkptExponentIsFloorLog2 ==
    (MdxReturned /\ env.ext = "ckpt" /\ Len(consulted) >= 4 /\ env.artifact.state = "ok") =>
        LET q == env.artifact.file.params
            raw == Get(q, "dim_t", 256)
            e == model_data.mdx_dim_t_set
        IN /\ source = "introspected"
           /\ model_data.mdx_dim_f_set = Get(q, "dim_f", 3072)
           /\ model_data.mdx_n_fft_scale_set = Get(q, "n_fft", 6144)
           /\ (raw > 0 =>
                 /\ e >= 0
                 /\ 2^e <= raw
                 /\ raw < 2^(e + 1)
                 /\ (2^e = raw <=> \E k \in 0..30 : 2^k = raw)
                 /\ (raw = 256 => e = 8))

C17_Witness ==
    /\ MdxReturned
    /\ source = "introspected"
    /\ env.ext = "ckpt"
    /\ Get(env.artifact.file.params, "dim_t", 256) = 300
    /\ model_data.mdx_dim_t_set = 8
    /\ model_data.mdx_dim_f_set = 3072
    /\ Has(env.kwargs, "mdx_dim_t_set")

\* C18: without a primary_stem override, the stem of an introspected
\* checkpoint is that of the first of vocals, instrumental, drums, bass,
\* other occurring in the lowercased target name, "other" standing for
\* Instrumental (never for an Other stem), and Vocals when none occurs.
C18_StemByFirstKeyword ==
    ( /\ MdxReturned
      /\ source = "introspected"
      /\ env.ext = "ckpt"
      /\ ~Has(env.kwargs, "primary_stem") )
    => LET K == KeywordsIn(Get(env.artifact.file.params, "target_name", "")) IN
       /\ model_data.primary_stem =
             IF "vocals" \in K THEN VOCAL_STEM
             ELSE IF "instrumental" \in K THEN INST_STEM
             ELSE IF "drums" \in K THEN DRUM_STEM
             ELSE IF "bass" \in K THEN BASS_STEM
             ELSE IF "other" \in K THEN INST_STEM
             ELSE VOCAL_STEM
       /\ model_data.primary_stem # OTHER_STEM

C18_Witness ==
    /\ MdxReturned
    /\ source = "introspected"
    /\ env.ext = "ckpt"
    /\ ~Has(env.kwargs, "primary_stem")
    /\ Get(env.artifact.file.params, "target_name", "") = "drums_other"
    /\ model_data.primary_stem = DRUM_STEM

C18_WitnessOther ==
    /\ MdxReturned
    /\ source = "introspected"
    /\ env.ext = "ckpt"
    /\ ~Has(env.kwargs, "primary_stem")
    /\ Get(env.artifact.file.params, "target_name", "") = "Other"
    /\ model_data.primary_stem = INST_STEM
    /\ model_data.secondary_stem = VOCAL_STEM

(***************************************************************************)
(* Properties of get_model_hash (SpecHash)                                 *)
(***************************************************************************)
\* The last n bytes of a byte sequence at least n long.
LastBytes(bytes, n) == [i \in 1..n |-> bytes[Len(bytes) - n + i]]

\* C19: the fingerprint computed from a file longer than the window is the
\* digest of its last WindowBytes bytes, so that two files with the same
\* trailing window get the same fingerprint whatever precedes it; a file
\* no longer than the window is digested whole.
C19_FingerprintOfTrailingWindow ==
    /\ \A p \in Paths :
          digested[p].computed =>
             IF Len(digested[p].bytes) > WindowBytes
             THEN digested[p].hash = Md5(LastBytes(digested[p].bytes, WindowBytes))
             ELSE digested[p].hash = Md5(digested[p].bytes)
    /\ \A p, q \in Paths :
          ( /\ digested[p].computed /\ digested[q].computed
            /\ Len(digested[p].bytes) > WindowBytes
            /\ Len(digested[q].bytes) > WindowBytes
            /\ LastBytes(digested[p].bytes, WindowBytes)
                  = LastBytes(digested[q].bytes, WindowBytes) )
          => digested[p].hash = digested[q].hash

C19_Witness ==
    /\ digested["a.pth"].computed
    /\ digested["b.pth"].computed
    /\ Len(digested["a.pth"].bytes) = WindowBytes + 1
    /\ Len(digested["b.pth"].bytes) = WindowBytes + 2
    /\ digested["a.pth"].bytes[1] # digested["b.pth"].bytes[2]
    /\ digested["a.pth"].hash = digested["b.pth"].hash
    /\ first_hash["mdx"]["a.pth"] = digested["a.pth"].hash
    /\ first_hash["vr"]["b.pth"] = digested["b.pth"].hash

\* C20: once a runner has fingerprinted a path, each of its later calls for
\* that path, the file still being there, returns the same value and does
\* not open the file, in the MDX runner and in the VR runner.
C20_MemoizedPerPath ==
    (last_call.prior # HashNone /\ last_call.isfile) =>
        /\ last_call.result = last_call.prior
        /\ ~last_call.opened

(***************************************************************************)
(* C21: concurrent calls of get_model_hash, for the same or for different  *)
(* paths and interleaved anywhere between the scan of the cache, the read  *)
(* of the file and the update of the cache, never fail and never corrupt   *)
(* the cache: no call leaves get_model_hash with an exception, every call  *)
(* that returns gives the fingerprint of its path (None when the file      *)
(* cannot be read), and every entry of the cache is the fingerprint of its *)
(* own path.                                                               *)
(***************************************************************************)
CacheSound ==
    /\ \A p \in Paths : model_hash_table[p] \in {HashNone, ComputeFileHash(files[p])}
    /\ \A i, j \in 1..Len(key_order) : key_order[i] = key_order[j] => i = j
    /\ \A p \in Paths : model_hash_table[p] # HashNone <=> \E i \in 1..Len(key_order) : key_order[i] = p

C21_ConcurrentCallsSafe ==
    /\ CacheSound
    /\ \A t \in Callers :
          /\ callers[t].pc # "raised"
          /\ callers[t].pc = "returned" =>
                callers[t].result = ComputeFileHash(files[callers[t].path])

\* Everything the claim says except that no call fails.
C21_CacheSoundAndResultsRight ==
    /\ CacheSound
    /\ \A t \in Callers :
          callers[t].pc = "returned" =>
             callers[t].result = ComputeFileHash(files[callers[t].path])

\* Two threads are inside get_model_hash for the same path, both past the
\* scan, and one of them has already written the entry.
C21_Interleaved ==
    \E t, u \in Callers :
       /\ t # u
       /\ callers[t].path = callers[u].path
       /\ callers[t].pc = "update"
       /\ callers[u].pc = "returned" /\ callers[u].result # HashNone
       /\ model_hash_table[callers[t].path] # HashNone

(***************************************************************************)
(* C22: classify_error marks an error recoverable exactly when it puts it  *)
(* in the GPU (device) category, and never in the file system, model,      *)
(* audio, network or unknown categories; an error that matches no keyword  *)
(* set and no known type is UNKNOWN; a "CUDA out of memory" message is a   *)
(* GPU error.                                                              *)
(***************************************************************************)
Categories == {"GPU", "FILE_SYSTEM", "MODEL", "AUDIO", "NETWORK", "UNKNOWN"}

Classified == {i \in 1..Len(attempts) : attempts[i].outcome = "raised"}

C22_RecoverableIffDevice ==
    \A i \in Classified :
       LET a == attempts[i] IN
       /\ a.category \in Categories
       /\ a.recoverable <=> a.category = "GPU"
       /\ a.error = [type |-> "ValueError", msg |-> "random"] => a.category = "UNKNOWN"
       /\ a.error.msg = "cuda out of memory" => a.category = "GPU" /\ a.recoverable

\* A memory-exhaustion failure on the GPU followed, on the retry, by a
\* network failure.
C22_Witness ==
    /\ Len(attempts) = 2
    /\ attempts[1].error.msg = "cuda out of memory" /\ attempts[1].recoverable
    /\ attempts[2].category = "NETWORK" /\ ~attempts[2].recoverable

(***************************************************************************)
(* C24: the unified command line hands over to a runner module only for a  *)
(* recognized command with a valid architecture.  An unknown command,      *)
(* `download` without a model name, `download` without --arch, `download`  *)
(* with an architecture outside mdx, demucs, vr, and `list` with an        *)
(* architecture outside mdx, demucs, vr, all: each returns exit code 1,    *)
(* and no runner is imported or run.                                       *)
(***************************************************************************)
KnownCommands == {"mdx", "demucs", "vr", "list", "download", "info", "help", "--help", "-h",
                  "version", "--version", "-v"}

CliCommand == IF Len(sys_argv) < 2 THEN "" ELSE sys_argv[2]
CliArgs == SubSeq(sys_argv, 3, Len(sys_argv))

\* The positions of CliArgs, after the model name, that hold an --arch flag
\* followed by a value.
ArchFlags == {i \in 2..(Len(CliArgs) - 1) : CliArgs[i] \in {"--arch", "-a"}}

RejectedCommandLine ==
    \/ Len(sys_argv) >= 2 /\ CliCommand \notin KnownCommands
    \/ CliCommand = "download" /\ CliArgs = <<>>
    \/ CliCommand = "download" /\ \A i \in 1..Len(CliArgs) : CliArgs[i] \notin {"--arch", "-a"}
    \/ CliCommand = "download" /\ ArchFlags # {}
          /\ \A i \in ArchFlags : CliArgs[i + 1] \notin {"mdx", "demucs", "vr"}
    \/ CliCommand = "list" /\ CliArgs # <<>> /\ CliArgs[1] \notin {"mdx", "demucs", "vr", "all"}

C24_RejectedWithoutRunner ==
    (cli_pc # "idle" /\ RejectedCommandLine) =>
        /\ cli_ran = <<>>
        /\ cli_pending = <<>>
        /\ cli_pc \in {"main", "done"}
        /\ cli_pc = "done" => cli_exit = 1

\* `uvr download some-model --arch invalid` has returned.
C24_Witness ==
    /\ sys_argv = <<"uvr", "download", "some-model", "--arch", "invalid">>
    /\ cli_pc = "done"
    /\ cli_exit = 1
    /\ cli_ran = <<>>

(***************************************************************************)
(* C25: for an empty command line and for the commands help, --help, -h,   *)
(* version, --version, -v and info, the unified command line returns exit  *)
(* code 0 and runs no runner.                                              *)
(***************************************************************************)
InformationalCommandLine ==
    \/ Len(sys_argv) < 2
    \/ CliCommand \in {"help", "--help", "-h", "version", "--version", "-v", "info"}

C25_InformationalReturnsZero ==
    (cli_pc # "idle" /\ InformationalCommandLine) =>
        /\ cli_ran = <<>>
        /\ cli_pending = <<>>
        /\ cli_pc \in {"main", "done"}
        /\ cli_pc = "done" => cli_exit = 0

\* `uvr info` has returned.
C25_Witness ==
    /\ sys_argv = <<"uvr", "info">>
    /\ cli_pc = "done"
    /\ cli_exit = 0
    /\ cli_ran = <<>>

(***************************************************************************)
(* C26: once the fallback has been taken, every later attempt of the same  *)
(* request runs on CPU: it is started with use_gpu False and with DirectML *)
(* disabled, whatever --gpu and --directml asked for, and the device       *)
(* preference never goes back to GPU.                                      *)
(***************************************************************************)
FallbackAttemptsOnCpu ==
    \A i \in 1..Len(attempts) :
       attempts[i].fallback =>
          /\ attempts[i].use_gpu = "False"
          /\ ~attempts[i].gpu
          /\ ~attempts[i].directml

C26_CpuAfterFallback ==
    /\ [](gpu_fallback_attempted => current_use_gpu = "False")
    /\ [](FallbackAttemptsOnCpu)
    /\ [][gpu_fallback_attempted => gpu_fallback_attempted' /\ current_use_gpu' = "False"]_vars

\* A request with --gpu and --directml whose first attempt ran with
\* DirectML and whose second attempt is the retry.
C26_Witness ==
    /\ args.gpu /\ args.directml
    /\ Len(attempts) = 2
    /\ attempts[1].directml
    /\ attempts[2].fallback
    /\ attempts[2].sep

(***************************************************************************)
(* C27: a resolution tier that fails or misses leaves no trace in the      *)
(* result.  The configuration produced by the tier that finally succeeds,  *)
(* with the flags is_mdx_c, is_mdx_ckpt and mdx_c_configs that select the  *)
(* Separator variant, is the one that tier produces from a new ModelData,  *)
(* as if the tiers before it had never been attempted.                     *)
(***************************************************************************)
\* What the tier that returned the configuration makes of a ModelData no
\* other tier has touched, from the same files.
UntouchedResult ==
    LET md0 == NewModelData(env.ext, env.kwargs) IN
    CASE source = "explicit" ->
            ExplicitResult(md0, [fmt |-> env.explicit.fmt,
                                 file |-> [state |-> env.explicit.state,
                                           doc |-> env.explicit.doc]], env.kwargs).md
      [] source = "hash_file" ->
            LET f == IF env.hashfile[1].outcome = "hit" THEN env.hashfile[1]
                     ELSE env.hashfile[2] IN
            ApplyConfig(md0, f.doc, env.kwargs).md
      [] source = "registry" -> ApplyConfig(md0, env.registry.entry, env.kwargs).md
      [] source = "introspected" ->
            AutoDetect(md0, env.ext, env.artifact.file, env.kwargs).md
      [] OTHER -> ApplyDefaults(md0, env.kwargs)

C27_FailedTiersLeaveNoTrace ==
    MdxReturned =>
        /\ model_data = UntouchedResult
        /\ rpc = "SeperateMDXC" => UntouchedResult.is_mdx_c
        /\ rpc = "SeperateMDX" => ~UntouchedResult.is_mdx_c

\* The same for the returns that no attempted tier before them failed in.
C27_NoTraceWithoutFailure ==
    (/\ MdxReturned
     /\ env.explicit.outcome # "fail"
     /\ \A i \in 1..2 : Get(env.hashfile[i], "outcome", "miss") # "fail") =>
        model_data = UntouchedResult

(***************************************************************************)
(* C28: in the VR runner the Separator is invoked only when model_status   *)
(* is True, and then primary_stem, secondary_stem and vr_model_param are   *)
(* all set; when model_status is False, run_vr_headless returns False      *)
(* without invoking the Separator, and the process exits with code 1       *)
(* without a retry.                                                        *)
(***************************************************************************)
VrParamsSet ==
    /\ vr_model_data.primary_stem # "None"
    /\ vr_model_data.secondary_stem # "None"
    /\ vr_model_data.vr_model_param # "None"

C28_SeparatorOnlyWithStatus ==
    /\ [](vpc = "SeperateVR" => vr_model_data.model_status /\ VrParamsSet)
    /\ [](vpc \in {"returned_false", "exit_1"} => ~vr_model_data.model_status)
    /\ [][vpc = "check" /\ ~vr_model_data.model_status => vpc' = "returned_false"]_vars
    /\ [][vpc = "returned_false" => vpc' = "exit_1"]_vars
    /\ [][vpc = "exit_1" => vpc' = "exit_1"]_vars

\* The Separator is reached with the user's parameters in place of a
\* configuration that was not found.
C28_Witness ==
    /\ vpc = "SeperateVR"
    /\ vr_model_data.found_by = "user"
    /\ vr_model_data.model_status

\* The process has exited with code 1 for a model file that exists.
C28_WitnessExit ==
    /\ vpc = "exit_1"
    /\ vr_env.model_file.state = "ok"

(***************************************************************************)
(* C29: in the hash cache of the VR runner an entry, once written for a    *)
(* path, is never changed or removed, and later calls for that path return *)
(* the value computed first even if the content of the file has changed; a *)
(* hash computation that fails writes no entry; a call for a path that is  *)
(* not an existing file returns None without opening the file and without  *)
(* changing the cache.                                                     *)
(***************************************************************************)
VrCallDone == last_call.runner = "vr"

C29_CacheEntriesAreFinal ==
    /\ [][\A p \in Paths : model_hash_table[p] # HashNone =>
                              model_hash_table'[p] = model_hash_table[p]]_vars
    /\ []((VrCallDone /\ last_call.isfile /\ last_call.prior # HashNone) =>
             (last_call.result = last_call.prior /\ ~last_call.opened))
    /\ []((VrCallDone /\ last_call.opened /\ last_call.result = HashNone) =>
             model_hash_table[last_call.path] = HashNone)
    /\ []((VrCallDone /\ ~last_call.isfile) =>
             (last_call.result = HashNone /\ ~last_call.opened))
    /\ [][model_hash_table' # model_hash_table =>
             (last_call'.runner = "vr" /\ last_call'.isfile /\ last_call'.opened
              /\ model_hash_table' = [model_hash_table EXCEPT
                                        ![last_call'.path] = last_call'.result])]_vars

\* A call returned the value computed first for a file whose content has
\* changed since.
C29_Witness ==
    /\ VrCallDone
    /\ last_call.isfile
    /\ last_call.prior # HashNone
    /\ last_call.result = last_call.prior
    /\ files[last_call.path].state = "ok"
    /\ ComputeFileHash(files[last_call.path]) # last_call.result

\* A call for a path that was removed after its fingerprint was cached.
C29_WitnessRemoved ==
    /\ VrCallDone
    /\ ~last_call.isfile
    /\ model_hash_table[last_call.path] # HashNone

(***************************************************************************)
(* C30: the exit code of a separation run reflects the final outcome only. *)
(* It is 0 if and only if the last attempt made, the first one or the CPU  *)
(* retry after a fallback, completed without raising and with the model    *)
(* resolved; a run that failed on the GPU and then succeeded on the CPU    *)
(* exits 0, and every run that ends in a fatal failure exits 1.  The exit  *)
(* code is set once, when main() returns.                                  *)
(***************************************************************************)
LastAttemptSucceeded ==
    /\ attempts # <<>>
    /\ attempts[Len(attempts)].outcome = "ok"

C30_ExitCodeIsFinalOutcome ==
    /\ [](pc = "done" => /\ exit_code \in {0, 1}
                         /\ exit_code = 0 <=> LastAttemptSucceeded)
    /\ [](pc # "done" => exit_code = -1)
    /\ [][pc = "done" => pc' = "done" /\ exit_code' = exit_code]_vars

\* A run whose first attempt failed on the GPU and whose CPU retry
\* succeeded has exited with code 0.
C30_Witness ==
    /\ pc = "done"
    /\ exit_code = 0
    /\ Len(attempts) = 2
    /\ attempts[1].outcome = "raised" /\ attempts[1].category = "GPU"
    /\ attempts[2].fallback /\ attempts[2].outcome = "ok"

====
